---- MODULE Spec2Model ----
(***************************************************************************)
(* Shortest-path engine: the three node-addressable priority queues        *)
(* (binary heap with position map, Fibonacci heap, monotone radix heap),   *)
(* single-source Dijkstra over them, the skewed bidirectional search and   *)
(* the contraction hierarchy.                                              *)
(*                                                                         *)
(* Conventions.  Node identifiers are 1..NumNodes; 0 stands for Python's   *)
(* None where a node is expected and -1 where a priority is expected.      *)
(* Python lists are sequences; a Python index i is position i+1.           *)
(* Python dicts are functions whose DOMAIN is the key set.                 *)
(* INF stands for math.inf.                                                *)
(***************************************************************************)
EXTENDS Integers, Sequences, FiniteSets, TLC

NumNodes == 3
MaxPrio == 5
\* most entries (live and stale) the caller lets the radix buckets hold:
\* MaxBuild before the first extract_min, MaxEntries afterwards
MaxBuild == 4
MaxEntries == 2
\* the Fibonacci heap is grown to one tree of up to 2^MaxOrder nodes
MaxOrder == 5
\* the largest edge weight of the graphs
MaxWeight == 3
\* most nodes of the graphs handed to the bidirectional search
MaxSearchNodes == 2
\* the skews handed to it are 0/SkewSteps, 1/SkewSteps, ..., 1
SkewSteps == 2
\* calls of query the caller makes on one hierarchy
MaxQueries == 2
\* nodes of the unit-weight graphs whose contraction is followed
MaxContractNodes == 4

\* most entries (live and stale) of the radix buckets where stale entries
\* are followed
MaxStale == 3
\* nodes and largest edge weight of the acyclic graphs handed to dijkstra
MaxDagNodes == 4
MaxDagWeight == 4

Nodes == 1..NumNodes
Prios == 0..MaxPrio
NoNode == 0
NoPrio == 0 - 1
INF == 1000000
\* edge weights, and the mark of a pair of nodes with no edge between them
Weights == {0, 1, MaxWeight}
NoEdge == 0 - 1

Kinds == {"binary", "fibonacci", "radix"}

\* the queue tags a caller may pass: the three variants and one other string
Tags == Kinds \cup {"invalid"}

\* ---------------------------------------------------------------- helpers

Put(f, k, v) == [x \in (DOMAIN f) \cup {k} |-> IF x = k THEN v ELSE f[x]]
Del(f, k) == [x \in (DOMAIN f) \ {k} |-> f[x]]
EmptyMap == [x \in {} |-> 0]

\* F(v) with v evaluated once: a local name for an intermediate value
Let(v, F(_)) == CHOOSE y \in {F(x) : x \in {v}} : TRUE

\* what a queue call hands back: the queue afterwards, the exception raised
\* ("none" when it returned) and the returned (node, priority) pair
Ret(st, err, n, p) == [st |-> st, err |-> err, node |-> n, prio |-> p]

\* ------------------------------------------------------------ BinaryHeap

BinaryHeap == [heap |-> <<>>, pos |-> EmptyMap]

BH_parent(i) == (i - 1) \div 2
BH_left(i) == 2 * i + 1
BH_right(i) == 2 * i + 2

\* heap[i] of the Python list
BH_at(h, i) == h.heap[i + 1]

\* _swap that updates the position of one of the two nodes only
BH_swap_one_position(h0, i, j) ==
    Let(h0, LAMBDA h :
    IF i = j THEN h
    ELSE [heap |-> [h.heap EXCEPT ![i + 1] = BH_at(h, j), ![j + 1] = BH_at(h, i)],
          pos |-> [h.pos EXCEPT ![BH_at(h, i)[1]] = j]])

BH_swap(h0, i, j) ==
    Let(h0, LAMBDA h :
    IF i = j THEN h
    ELSE [heap |-> [h.heap EXCEPT ![i + 1] = BH_at(h, j), ![j + 1] = BH_at(h, i)],
          pos |-> [h.pos EXCEPT ![BH_at(h, i)[1]] = j, ![BH_at(h, j)[1]] = i]])

RECURSIVE BH_sift_up(_, _)
BH_sift_up(h0, i) ==
    Let(h0, LAMBDA h :
    IF i > 0 /\ BH_at(h, i)[2] < BH_at(h, BH_parent(i))[2]
    THEN BH_sift_up(BH_swap(h, i, BH_parent(i)), BH_parent(i))
    ELSE h)

\* the index _sift_down swaps heap[i] with (i itself: none)
BH_smallest(h, i) ==
    Let(IF BH_left(i) < Len(h.heap) /\ BH_at(h, BH_left(i))[2] < BH_at(h, i)[2]
        THEN BH_left(i) ELSE i, LAMBDA s1 :
    IF BH_right(i) < Len(h.heap) /\ BH_at(h, BH_right(i))[2] < BH_at(h, s1)[2]
    THEN BH_right(i) ELSE s1)

\* _sift_down that leaves the new root where the swap put it
BH_sift_down_skipped(h0, i) == h0

RECURSIVE BH_sift_down(_, _)
BH_sift_down(h0, i) ==
    Let(h0, LAMBDA h :
    Let(BH_smallest(h, i), LAMBDA smallest :
    IF smallest # i
    THEN BH_sift_down(BH_swap(h, i, smallest), smallest)
    ELSE h))

\* insert without the membership test
BH_insert_unchecked(h, node, priority) ==
    Ret(BH_sift_up([heap |-> Append(h.heap, <<node, priority>>),
                    pos |-> Put(h.pos, node, Len(h.heap))],
                   Len(h.heap)),
        "none", NoNode, NoPrio)

BH_insert(h, node, priority) ==
    IF node \in DOMAIN h.pos
    THEN Ret(h, "ValueError", NoNode, NoPrio)
    ELSE Ret(BH_sift_up([heap |-> Append(h.heap, <<node, priority>>),
                         pos |-> Put(h.pos, node, Len(h.heap))],
                        Len(h.heap)),
             "none", NoNode, NoPrio)

\* extract_min that forgets del self._pos[node]
BH_extract_min_keeps_pos(h) ==
    IF h.heap = <<>>
    THEN Ret(h, "none", NoNode, NoPrio)
    ELSE Let(BH_swap(h, 0, Len(h.heap) - 1), LAMBDA h1 :
         Let(h1.heap[Len(h1.heap)], LAMBDA e :
         Let([heap |-> SubSeq(h1.heap, 1, Len(h1.heap) - 1),
              pos |-> h1.pos], LAMBDA h2 :
         Ret(IF h2.heap # <<>> THEN BH_sift_down(h2, 0) ELSE h2, "none", e[1], e[2]))))

BH_extract_min(h) ==
    IF h.heap = <<>>
    THEN Ret(h, "none", NoNode, NoPrio)
    ELSE Let(BH_swap(h, 0, Len(h.heap) - 1), LAMBDA h1 :
         Let(h1.heap[Len(h1.heap)], LAMBDA e :
         Let([heap |-> SubSeq(h1.heap, 1, Len(h1.heap) - 1),
              pos |-> Del(h1.pos, e[1])], LAMBDA h2 :
         Ret(IF h2.heap # <<>> THEN BH_sift_down(h2, 0) ELSE h2, "none", e[1], e[2]))))

\* decrease_key without the test new_priority >= cur_priority
BH_decrease_key_always(h, node, new_priority) ==
    IF node \notin DOMAIN h.pos
    THEN Ret(h, "KeyError", NoNode, NoPrio)
    ELSE Ret(BH_sift_up([h EXCEPT !.heap[h.pos[node] + 1] =
                                      <<BH_at(h, h.pos[node])[1], new_priority>>],
                        h.pos[node]),
             "none", NoNode, NoPrio)

BH_decrease_key(h, node, new_priority) ==
    IF node \notin DOMAIN h.pos
    THEN Ret(h, "KeyError", NoNode, NoPrio)
    ELSE IF new_priority >= BH_at(h, h.pos[node])[2]
    THEN Ret(h, "none", NoNode, NoPrio)
    ELSE Ret(BH_sift_up([h EXCEPT !.heap[h.pos[node] + 1] =
                                      <<BH_at(h, h.pos[node])[1], new_priority>>],
                        h.pos[node]),
             "none", NoNode, NoPrio)

BH_is_empty(h) == Len(h.heap) = 0
BH_len(h) == Len(h.heap)
BH_contains(h, node) == node \in DOMAIN h.pos

\* --------------------------------------------------------- FibonacciHeap
\* A FibNode is named by the node it carries: self.nodes holds at most one
\* FibNode per node, and an extracted FibNode is unreachable garbage whose
\* fields are reset.  key, parent, child, left, right, degree and mark are
\* the FibNode fields, one function over Nodes each.

\* an empty heap whose FibNodes will carry the nodes of S
FibonacciHeapOver(S) ==
    [min |-> NoNode, count |-> 0, nodes |-> {},
     key |-> [n \in S |-> NoPrio],
     parent |-> [n \in S |-> NoNode],
     child |-> [n \in S |-> NoNode],
     left |-> [n \in S |-> NoNode],
     right |-> [n \in S |-> NoNode],
     degree |-> [n \in S |-> 0],
     mark |-> [n \in S |-> FALSE]]

FibonacciHeap == FibonacciHeapOver(Nodes)

\* FibNode(node, key): a fresh singleton
FibNode(h, node, key) ==
    [h EXCEPT !.key = Put(h.key, node, key), !.parent = Put(h.parent, node, NoNode),
              !.child = Put(h.child, node, NoNode),
              !.left = Put(h.left, node, node), !.right = Put(h.right, node, node),
              !.degree = Put(h.degree, node, 0), !.mark = Put(h.mark, node, FALSE)]

FH_merge_with_root_list(h0, node) ==
    Let(h0, LAMBDA h :
    IF h.min = NoNode
    THEN [h EXCEPT !.left[node] = node, !.right[node] = node, !.min = node]
    ELSE Let([h EXCEPT !.left[node] = h.min], LAMBDA s1 :
         Let([s1 EXCEPT !.right[node] = s1.right[s1.min]], LAMBDA s2 :
         Let([s2 EXCEPT !.left[s2.right[s2.min]] = node], LAMBDA s3 :
         [s3 EXCEPT !.right[s3.min] = node]))))

FH_remove_from_list(h0, node) ==
    Let(h0, LAMBDA h :
    Let([h EXCEPT !.right[h.left[node]] = h.right[node]], LAMBDA s1 :
    [s1 EXCEPT !.left[s1.right[node]] = s1.left[node]]))

\* the nodes of the circular list through head, head first, following right
RECURSIVE FH_walk(_, _, _, _)
FH_walk(h, head, cur, acc) ==
    IF (cur = head /\ acc # <<>>) \/ Len(acc) > Cardinality(DOMAIN h.right)
    THEN acc
    ELSE FH_walk(h, head, h.right[cur], Append(acc, cur))

FH_iterate(h, head) == FH_walk(h, head, head, <<>>)

FH_link(h0, y, x) ==
    Let(FH_remove_from_list(h0, y), LAMBDA s1 :
    Let([s1 EXCEPT !.parent[y] = x], LAMBDA s2 :
    Let(IF s2.child[x] = NoNode
        THEN [s2 EXCEPT !.child[x] = y, !.left[y] = y, !.right[y] = y]
        ELSE Let([s2 EXCEPT !.left[y] = s2.child[x]], LAMBDA t1 :
             Let([t1 EXCEPT !.right[y] = t1.right[t1.child[x]]], LAMBDA t2 :
             Let([t2 EXCEPT !.left[t2.right[t2.child[x]]] = y], LAMBDA t3 :
             [t3 EXCEPT !.right[t3.child[x]] = y]))), LAMBDA s3 :
    [s3 EXCEPT !.degree[x] = @ + 1, !.mark[y] = FALSE])))

RECURSIVE FloorLog2(_)
FloorLog2(n) == IF n <= 1 THEN 0 ELSE 1 + FloorLog2(n \div 2)

\* the inner while of _consolidate for one root: [st, A, err]
RECURSIVE FH_consolidate_while(_, _, _, _, _)
FH_consolidate_while(h0, A0, x, d, max_degree) ==
    Let(h0, LAMBDA h :
    Let(A0, LAMBDA A :
    IF d >= max_degree
    THEN [st |-> h, A |-> A, err |-> "IndexError"]
    ELSE IF A[d] # NoNode
    THEN IF h.key[x] > h.key[A[d]]
         THEN FH_consolidate_while(FH_link(h, x, A[d]), [A EXCEPT ![d] = NoNode],
                                   A[d], d + 1, max_degree)
         ELSE FH_consolidate_while(FH_link(h, A[d], x), [A EXCEPT ![d] = NoNode],
                                   x, d + 1, max_degree)
    ELSE [st |-> h, A |-> [A EXCEPT ![d] = x], err |-> "none"]))

\* the for loop of _consolidate over roots[lo..hi], a part of the snapshot of
\* the root list, taken in order (the range is halved to keep the evaluation
\* shallow); r0 is [st, A, err]
RECURSIVE FH_consolidate_range(_, _, _, _, _)
FH_consolidate_range(r0, roots, lo, hi, max_degree) ==
    IF r0.err # "none" \/ lo > hi THEN r0
    ELSE IF lo = hi
    THEN FH_consolidate_while(r0.st, r0.A, roots[lo], r0.st.degree[roots[lo]],
                              max_degree)
    ELSE Let(FH_consolidate_range(r0, roots, lo, (lo + hi) \div 2, max_degree),
             LAMBDA r1 :
         FH_consolidate_range(r1, roots, (lo + hi) \div 2 + 1, hi, max_degree))

\* the for loop of _consolidate over the snapshot of the root list
FH_consolidate_for(h0, A0, roots, i, max_degree) ==
    FH_consolidate_range([st |-> h0, A |-> A0, err |-> "none"],
                         roots, i, Len(roots), max_degree)

\* the second loop of _consolidate: rebuild the root list from A
RECURSIVE FH_consolidate_rebuild(_, _, _, _)
FH_consolidate_rebuild(h0, A, i, max_degree) ==
    Let(h0, LAMBDA h :
    IF i >= max_degree THEN h
    ELSE IF A[i] = NoNode THEN FH_consolidate_rebuild(h, A, i + 1, max_degree)
    ELSE IF h.min = NoNode
    THEN FH_consolidate_rebuild(
             [h EXCEPT !.min = A[i], !.left[A[i]] = A[i], !.right[A[i]] = A[i]],
             A, i + 1, max_degree)
    ELSE Let(FH_merge_with_root_list(h, A[i]), LAMBDA s1 :
         FH_consolidate_rebuild(
             IF s1.key[A[i]] < s1.key[s1.min] THEN [s1 EXCEPT !.min = A[i]] ELSE s1,
             A, i + 1, max_degree)))

FH_consolidate(h0) ==
    Let(h0, LAMBDA h :
    IF h.count <= 0
    THEN [st |-> h, err |-> "ValueError"]
    ELSE Let(FloorLog2(h.count) + 2, LAMBDA max_degree :
         Let(FH_consolidate_for(h, [d \in 0..(max_degree - 1) |-> NoNode],
                                FH_iterate(h, h.min), 1, max_degree), LAMBDA r :
         IF r.err # "none"
         THEN [st |-> r.st, err |-> r.err]
         ELSE [st |-> FH_consolidate_rebuild([r.st EXCEPT !.min = NoNode],
                                             r.A, 0, max_degree),
               err |-> "none"])))

FH_cut(h0, x, y) ==
    Let(h0, LAMBDA h :
    Let(IF h.child[y] = x
        THEN IF h.right[x] # x
             THEN [h EXCEPT !.child[y] = h.right[x]]
             ELSE [h EXCEPT !.child[y] = NoNode]
        ELSE h, LAMBDA s1 :
    Let(FH_remove_from_list(s1, x), LAMBDA s2 :
    Let(FH_merge_with_root_list([s2 EXCEPT !.degree[y] = @ - 1], x), LAMBDA s4 :
    [s4 EXCEPT !.parent[x] = NoNode, !.mark[x] = FALSE]))))

RECURSIVE FH_cascading_cut(_, _)
FH_cascading_cut(h0, y) ==
    Let(h0, LAMBDA h :
    IF h.parent[y] # NoNode
    THEN IF ~h.mark[y]
         THEN [h EXCEPT !.mark[y] = TRUE]
         ELSE FH_cascading_cut(FH_cut(h, y, h.parent[y]), h.parent[y])
    ELSE h)

FH_insert(h, node, priority) ==
    IF node \in h.nodes
    THEN Ret(h, "ValueError", NoNode, NoPrio)
    ELSE Let(FH_merge_with_root_list(FibNode(h, node, priority), node), LAMBDA s1 :
         Let(IF s1.min = NoNode \/ s1.key[node] < s1.key[s1.min]
             THEN [s1 EXCEPT !.min = node] ELSE s1, LAMBDA s2 :
         Ret([s2 EXCEPT !.nodes = @ \cup {node}, !.count = @ + 1],
             "none", NoNode, NoPrio)))

\* promote the children of z (a snapshot of its child list) to the root list
RECURSIVE FH_promote(_, _, _)
FH_promote(h0, kids, i) ==
    IF i > Len(kids) THEN h0
    ELSE Let(FH_merge_with_root_list(h0, kids[i]), LAMBDA s1 :
         FH_promote([s1 EXCEPT !.parent[kids[i]] = NoNode], kids, i + 1))

\* the extracted FibNode z is garbage: reset its fields
FH_forget(h, z) ==
    [h EXCEPT !.key[z] = NoPrio, !.parent[z] = NoNode, !.child[z] = NoNode,
              !.left[z] = NoNode, !.right[z] = NoNode,
              !.degree[z] = 0, !.mark[z] = FALSE]

FH_extract_min(h) ==
    IF h.min = NoNode
    THEN Ret(h, "none", NoNode, NoPrio)
    ELSE Let(h.min, LAMBDA z :
         Let(IF h.child[z] # NoNode
             THEN FH_promote(h, FH_iterate(h, h.child[z]), 1)
             ELSE h, LAMBDA s1 :
         Let(FH_remove_from_list(s1, z), LAMBDA s2 :
         Let([s2 EXCEPT !.nodes = @ \ {z}, !.count = @ - 1], LAMBDA s3 :
         IF s3.right[z] = z
         THEN Ret(FH_forget([s3 EXCEPT !.min = NoNode], z), "none", z, h.key[z])
         ELSE Let(FH_consolidate([s3 EXCEPT !.min = s3.right[z]]), LAMBDA c :
              IF c.err # "none"
              THEN Ret(FH_forget(c.st, z), c.err, NoNode, NoPrio)
              ELSE Ret(FH_forget(c.st, z), "none", z, h.key[z]))))))

FH_decrease_key(h, node, new_key) ==
    IF node \notin h.nodes
    THEN Ret(h, "KeyError", NoNode, NoPrio)
    ELSE IF new_key >= h.key[node]
    THEN Ret(h, "none", NoNode, NoPrio)
    ELSE Let([h EXCEPT !.key[node] = new_key], LAMBDA s1 :
         Let(IF s1.parent[node] # NoNode /\ s1.key[node] < s1.key[s1.parent[node]]
             THEN FH_cascading_cut(FH_cut(s1, node, s1.parent[node]), s1.parent[node])
             ELSE s1, LAMBDA s2 :
         Ret(IF s2.key[node] < s2.key[s2.min] THEN [s2 EXCEPT !.min = node] ELSE s2,
             "none", NoNode, NoPrio)))

FH_is_empty(h) == h.min = NoNode
FH_len(h) == h.count
FH_contains(h, node) == node \in h.nodes

\* ------------------------------------------------------------- RadixHeap
\* buckets is the list of buckets, each a list of (node, priority) entries;
\* node_map maps a node to (priority, bucket_index); u is the list of
\* bucket bounds.

RH_recompute_bounds(h) ==
    [h EXCEPT !.u = [i \in 1..h.B |->
                        IF i = 1 THEN h.last_extracted
                        ELSE h.last_extracted + 2 ^ (i - 2)]]

RadixHeap(max_key) ==
    Let(IF max_key > 0 THEN FloorLog2(max_key) + 2 ELSE 2, LAMBDA B :
    RH_recompute_bounds(
        [last_extracted |-> 0, size |-> 0, node_map |-> EmptyMap, B |-> B,
         buckets |-> [i \in 1..B |-> <<>>],
         u |-> [i \in 1..B |-> 0]]))

\* smallest b such that prio < u[b+1], the last bucket when there is none
RECURSIVE RH_bucket_scan(_, _, _)
RH_bucket_scan(h, prio, b) ==
    IF b >= h.B - 1 THEN h.B - 1
    ELSE IF prio < h.u[b + 2] THEN b
    ELSE RH_bucket_scan(h, prio, b + 1)

RH_bucket_index(h, prio) == RH_bucket_scan(h, prio, 0)

\* an entry counted as live whenever its node is in node_map, whatever
\* priority the entry carries
RH_live_any_priority(h, node, prio) == node \in DOMAIN h.node_map

\* cur_prio == prio, with cur_prio, _ = node_map.get(node, (None, None))
RH_live(h, node, prio) == node \in DOMAIN h.node_map /\ h.node_map[node][1] = prio

RH_insert(h0, node, priority) ==
    Let(h0, LAMBDA h :
    IF priority < h.last_extracted
    THEN Ret(h, "ValueError", NoNode, NoPrio)
    ELSE IF node \in DOMAIN h.node_map
    THEN Ret(h, "ValueError", NoNode, NoPrio)
    ELSE Let(RH_bucket_index(h, priority), LAMBDA b :
         Ret([h EXCEPT !.buckets[b + 1] = Append(@, <<node, priority>>),
                       !.node_map = Put(@, node, <<priority, b>>),
                       !.size = @ + 1],
             "none", NoNode, NoPrio)))

\* i = 1; while i < B and not buckets[i]: i += 1
RECURSIVE RH_next_nonempty(_, _)
RH_next_nonempty(h, i) ==
    IF i < h.B /\ h.buckets[i + 1] = <<>> THEN RH_next_nonempty(h, i + 1) ELSE i

\* the priority of the first live entry of items instead of the smallest
RECURSIVE RH_first_live(_, _, _, _)
RH_first_live(h, items, k, min_prio) ==
    IF k > Len(items) THEN min_prio
    ELSE IF RH_live(h, items[k][1], items[k][2]) THEN items[k][2]
    ELSE RH_first_live(h, items, k + 1, min_prio)

\* minimum priority among the live entries of items (NoPrio for None)
RECURSIVE RH_min_live(_, _, _, _)
RH_min_live(h, items, k, min_prio) ==
    IF k > Len(items) THEN min_prio
    ELSE IF RH_live(h, items[k][1], items[k][2])
            /\ (min_prio = NoPrio \/ items[k][2] < min_prio)
    THEN RH_min_live(h, items, k + 1, items[k][2])
    ELSE RH_min_live(h, items, k + 1, min_prio)

\* the redistribution loop of _refill_bucket_0
RECURSIVE RH_redistribute(_, _, _)
RH_redistribute(h0, items, k) ==
    IF k > Len(items) THEN h0
    ELSE Let(h0, LAMBDA h :
         IF ~RH_live(h, items[k][1], items[k][2])
         THEN RH_redistribute(h, items, k + 1)
         ELSE Let(RH_bucket_index(h, items[k][2]), LAMBDA b :
              RH_redistribute(
                  [h EXCEPT !.buckets[b + 1] = Append(@, items[k]),
                            !.node_map[items[k][1]] = <<items[k][2], b>>],
                  items, k + 1)))

RECURSIVE RH_refill_bucket_0(_)
RH_refill_bucket_0(h0) ==
    Let(h0, LAMBDA h :
    Let(RH_next_nonempty(h, 1), LAMBDA i :
    IF i = h.B
    THEN IF h.size = 0
         THEN [st |-> h, err |-> "none"]
         ELSE [st |-> h, err |-> "RuntimeError"]
    ELSE Let(RH_min_live(h, h.buckets[i + 1], 1, NoPrio), LAMBDA min_prio :
         IF min_prio = NoPrio
         THEN RH_refill_bucket_0([h EXCEPT !.buckets[i + 1] = <<>>])
         ELSE Let(RH_recompute_bounds([h EXCEPT !.last_extracted = min_prio]),
                  LAMBDA s1 :
              [st |-> RH_redistribute([s1 EXCEPT !.buckets[i + 1] = <<>>],
                                      h.buckets[i + 1], 1),
               err |-> "none"]))))

\* while buckets[0]: pop the last entry; return the first live one
RECURSIVE RH_pop_live(_)
RH_pop_live(h0) ==
    Let(h0, LAMBDA h :
    IF h.buckets[1] = <<>>
    THEN [st |-> h, found |-> FALSE, node |-> NoNode, prio |-> NoPrio]
    ELSE Let(h.buckets[1][Len(h.buckets[1])], LAMBDA e :
         Let([h EXCEPT !.buckets[1] = SubSeq(@, 1, Len(@) - 1)], LAMBDA s1 :
         IF RH_live(s1, e[1], e[2])
         THEN [st |-> [s1 EXCEPT !.node_map = Del(@, e[1]),
                                 !.size = @ - 1,
                                 !.last_extracted = e[2]],
               found |-> TRUE, node |-> e[1], prio |-> e[2]]
         ELSE RH_pop_live(s1))))

\* extract_min without the second refill: when the first pop loop found
\* only stale entries and nodes remain, it gives up
RH_extract_retry_gives_up(h) ==
    IF h.size = 0 THEN Ret(h, "none", NoNode, NoPrio)
    ELSE Ret(h, "RuntimeError", NoNode, NoPrio)

\* the second half of extract_min, after the first pop loop found nothing
RH_extract_retry(h) ==
    IF h.size = 0 THEN Ret(h, "none", NoNode, NoPrio)
    ELSE Let(RH_refill_bucket_0(h), LAMBDA r2 :
         IF r2.err # "none" THEN Ret(r2.st, r2.err, NoNode, NoPrio)
         ELSE Let(RH_pop_live(r2.st), LAMBDA p2 :
              IF p2.found THEN Ret(p2.st, "none", p2.node, p2.prio)
              ELSE Ret(p2.st, "RuntimeError", NoNode, NoPrio)))

RH_extract_min(h0) ==
    Let(h0, LAMBDA h :
    IF h.size = 0
    THEN Ret(h, "none", NoNode, NoPrio)
    ELSE Let(IF h.buckets[1] = <<>> THEN RH_refill_bucket_0(h)
             ELSE [st |-> h, err |-> "none"], LAMBDA r1 :
         IF r1.err # "none" THEN Ret(r1.st, r1.err, NoNode, NoPrio)
         ELSE Let(RH_pop_live(r1.st), LAMBDA p1 :
              IF p1.found THEN Ret(p1.st, "none", p1.node, p1.prio)
              ELSE RH_extract_retry(p1.st))))

\* decrease_key that reads the old priority with a default of infinity
\* instead of testing membership
RH_decrease_key_upsert(h0, node, new_priority) ==
    Let(h0, LAMBDA h :
    IF node \in DOMAIN h.node_map /\ new_priority >= h.node_map[node][1]
    THEN Ret(h, "none", NoNode, NoPrio)
    ELSE IF new_priority < h.last_extracted
    THEN Ret(h, "ValueError", NoNode, NoPrio)
    ELSE Let(RH_bucket_index(h, new_priority), LAMBDA b :
         Ret([h EXCEPT !.buckets[b + 1] = Append(@, <<node, new_priority>>),
                       !.node_map = Put(@, node, <<new_priority, b>>)],
             "none", NoNode, NoPrio)))

RH_decrease_key(h0, node, new_priority) ==
    Let(h0, LAMBDA h :
    IF node \notin DOMAIN h.node_map
    THEN Ret(h, "KeyError", NoNode, NoPrio)
    ELSE IF new_priority >= h.node_map[node][1]
    THEN Ret(h, "none", NoNode, NoPrio)
    ELSE IF new_priority < h.last_extracted
    THEN Ret(h, "ValueError", NoNode, NoPrio)
    ELSE Let(RH_bucket_index(h, new_priority), LAMBDA b :
         Ret([h EXCEPT !.buckets[b + 1] = Append(@, <<node, new_priority>>),
                       !.node_map = Put(@, node, <<new_priority, b>>)],
             "none", NoNode, NoPrio)))

RH_is_empty(h) == h.size = 0
RH_len(h) == h.size
RH_contains(h, node) == node \in DOMAIN h.node_map

\* ------------------------------------------- the uniform queue interface

QNew(k, max_key) ==
    IF k = "binary" THEN BinaryHeap
    ELSE IF k = "fibonacci" THEN FibonacciHeap
    ELSE RadixHeap(max_key)

QInsert(k, h, node, priority) ==
    IF k = "binary" THEN BH_insert(h, node, priority)
    ELSE IF k = "fibonacci" THEN FH_insert(h, node, priority)
    ELSE RH_insert(h, node, priority)

QExtractMin(k, h) ==
    IF k = "binary" THEN BH_extract_min(h)
    ELSE IF k = "fibonacci" THEN FH_extract_min(h)
    ELSE RH_extract_min(h)

QDecreaseKey(k, h, node, priority) ==
    IF k = "binary" THEN BH_decrease_key(h, node, priority)
    ELSE IF k = "fibonacci" THEN FH_decrease_key(h, node, priority)
    ELSE RH_decrease_key(h, node, priority)

QIsEmpty(k, h) ==
    IF k = "binary" THEN BH_is_empty(h)
    ELSE IF k = "fibonacci" THEN FH_is_empty(h)
    ELSE RH_is_empty(h)

QLen(k, h) ==
    IF k = "binary" THEN BH_len(h)
    ELSE IF k = "fibonacci" THEN FH_len(h)
    ELSE RH_len(h)

QContains(k, h, node) ==
    IF k = "binary" THEN BH_contains(h, node)
    ELSE IF k = "fibonacci" THEN FH_contains(h, node)
    ELSE RH_contains(h, node)

\* ------------------------------------------------ a queue and its caller
\* One queue of one variant, called by an arbitrary client.
\*   q      the queue object
\*   op     the name of the last call
\*   ret    what it did: [err, node, prio] (err "none": it returned)
\*   live   the caller's book-keeping: node -> current priority for the
\*          nodes whose insert returned and that no extract_min returned
\*          yet; a decrease_key that returns lowers the priority when the
\*          new one is smaller
\*   hist   the caller's record of the call sequence:
\*          phase  "build" until the first extract_min, then "drain" while
\*                 only extract_min is called, "mixed" afterwards
\*          last   in phase "drain", the priority of the last extraction
\*                 (NoPrio: none yet)

VARIABLES kind, q, op, ret, live, hist, dj, bd, ch

qvars == <<kind, q, op, ret, live, hist>>
avars == <<dj, bd, ch>>

RH_entries(h) ==
    LET RECURSIVE sum(_)
        sum(i) == IF i > h.B THEN 0 ELSE Len(h.buckets[i]) + sum(i + 1)
    IN sum(1)

\* the call that r is the outcome of keeps the radix buckets within cap
Room(r, cap) == kind = "radix" => RH_entries(r.st) <= cap

\* priority below last_extracted of the radix queue
BelowLast(p) == kind = "radix" /\ p < q.last_extracted

QInit ==
    /\ kind \in Kinds
    /\ q = QNew(kind, MaxPrio)
    /\ op = "new"
    /\ ret = [err |-> "none", node |-> NoNode, prio |-> NoPrio]
    /\ live = EmptyMap
    /\ hist = [phase |-> "build", last |-> NoPrio]

CallInsert(n, p, cap) ==
    \E r \in {QInsert(kind, q, n, p)} :
       /\ Room(r, cap)
       /\ q' = r.st
       /\ op' = "insert"
       /\ ret' = [err |-> r.err, node |-> r.node, prio |-> r.prio]
       /\ live' = IF r.err = "none" THEN Put(live, n, p) ELSE live
       /\ hist' = [phase |-> IF hist.phase = "build" THEN "build" ELSE "mixed",
                   last |-> NoPrio]
       /\ UNCHANGED <<kind, avars>>

CallDecreaseKey(n, p, cap) ==
    \E r \in {QDecreaseKey(kind, q, n, p)} :
       /\ Room(r, cap)
       /\ q' = r.st
       /\ op' = "decrease_key"
       /\ ret' = [err |-> r.err, node |-> r.node, prio |-> r.prio]
       /\ live' = IF r.err = "none" /\ n \in DOMAIN live /\ p < live[n]
                  THEN [live EXCEPT ![n] = p] ELSE live
       /\ hist' = [phase |-> IF hist.phase = "build" THEN "build" ELSE "mixed",
                   last |-> NoPrio]
       /\ UNCHANGED <<kind, avars>>

Insert(n, p) == CallInsert(n, p, MaxEntries)

DecreaseKey(n, p) == CallDecreaseKey(n, p, MaxEntries)

ExtractMin ==
    \E r \in {QExtractMin(kind, q)} :
       /\ q' = r.st
       /\ op' = "extract_min"
       /\ ret' = [err |-> r.err, node |-> r.node, prio |-> r.prio]
       /\ live' = IF r.err = "none" /\ r.node # NoNode THEN Del(live, r.node) ELSE live
       /\ hist' = [phase |-> IF hist.phase = "build" THEN "drain" ELSE hist.phase,
                   last |-> IF hist.phase = "mixed" THEN NoPrio
                            ELSE IF r.err = "none" /\ r.node # NoNode THEN r.prio
                            ELSE hist.last]
       /\ UNCHANGED <<kind, avars>>

QNext ==
    \/ \E n \in Nodes, p \in Prios : Insert(n, p)
    \/ \E n \in Nodes, p \in Prios : DecreaseKey(n, p)
    \/ ExtractMin

\* the radix queue under its contract: no priority below last_extracted is
\* ever passed to insert or decrease_key
MonoInsert(n, p) == ~BelowLast(p) /\ CallInsert(n, p, MaxEntries)

MonoDecreaseKey(n, p) == ~BelowLast(p) /\ CallDecreaseKey(n, p, MaxEntries)

MonoNext ==
    \/ \E n \in Nodes, p \in Prios : MonoInsert(n, p)
    \/ \E n \in Nodes, p \in Prios : MonoDecreaseKey(n, p)
    \/ ExtractMin

\* the radix queue under an arbitrary caller, with room for stale entries
StaleInsert(n, p) == CallInsert(n, p, MaxStale)

StaleDecreaseKey(n, p) == CallDecreaseKey(n, p, MaxStale)

StaleNext ==
    \/ \E n \in Nodes, p \in Prios : StaleInsert(n, p)
    \/ \E n \in Nodes, p \in Prios : StaleDecreaseKey(n, p)
    \/ ExtractMin

\* fill, then drain: insert and decrease_key calls, then extract_min until
\* the queue is empty
BuildInsert(n, p) == hist.phase = "build" /\ CallInsert(n, p, MaxBuild)

BuildDecreaseKey(n, p) == hist.phase = "build" /\ CallDecreaseKey(n, p, MaxBuild)

DrainExtractMin == ~QIsEmpty(kind, q) /\ ExtractMin

DrainNext ==
    \/ \E n \in Nodes, p \in Prios : BuildInsert(n, p)
    \/ \E n \in Nodes, p \in Prios : BuildDecreaseKey(n, p)
    \/ DrainExtractMin

\* nodes inserted in the order 1, 2, 3, ... with any priorities, then
\* extract_min: the insertion order of the nodes in the queue is their
\* numerical order
TieInsert(p) ==
    /\ hist.phase = "build"
    /\ Cardinality(DOMAIN live) < NumNodes
    /\ CallInsert(Cardinality(DOMAIN live) + 1, p, MaxBuild)

TieNext ==
    \/ \E p \in Prios : TieInsert(p)
    \/ DrainExtractMin

\* ------------------------------------- a Fibonacci heap grown and thinned
\* A caller that builds one tree and thins it.  For an order k it inserts the
\* nodes 1..2^k+1 with the keys DG_key(1) < DG_key(2) < ... and extracts the
\* minimum, which leaves one tree of 2^k nodes; it then lowers the key of the
\* largest child of every inner node of that tree that is no root, which
\* cuts the child off; it lowers the key of every node that is no longer in
\* the tree; and it extracts the minimum until only the tree is left.
\*   hist.phase  "fill" until the first extract_min, "thin" afterwards
\*   hist.order  k

DegreeNodes == 2 ^ MaxOrder + 1

\* the key node n is inserted with: above every key decrease_key passes
DG_key(n) == DegreeNodes + n

\* the root of the tree n is in
RECURSIVE DG_top(_, _)
DG_top(h, n) == IF h.parent[n] = NoNode THEN n ELSE DG_top(h, h.parent[n])

\* n is in the tree grown by the first extract_min: its root still has the
\* key it was inserted with
DG_in_tree(h, n) == h.key[DG_top(h, n)] > DegreeNodes

\* the children the caller cuts off: the largest child of an unmarked node
\* of the tree that is no root
DG_cuts(h) ==
    {n \in h.nodes :
        /\ h.parent[n] # NoNode
        /\ h.parent[h.parent[n]] # NoNode
        /\ ~h.mark[h.parent[n]]
        /\ DG_in_tree(h, n)
        /\ \A m \in h.nodes : h.parent[m] = h.parent[n] => h.degree[m] <= h.degree[n]}

\* the nodes outside the tree whose key was not lowered yet
DG_sinks(h) == {n \in h.nodes : h.key[n] > DegreeNodes /\ ~DG_in_tree(h, n)}

DG_Init ==
    /\ kind = "fibonacci"
    /\ q = FibonacciHeapOver(1..DegreeNodes)
    /\ op = "new"
    /\ ret = [err |-> "none", node |-> NoNode, prio |-> NoPrio]
    /\ live = EmptyMap
    /\ hist \in {[phase |-> "fill", last |-> NoPrio, order |-> k] : k \in 0..MaxOrder}

\* the outcome r of the call named o, recorded by the caller
DG_record(o, r, n, p) ==
    /\ q' = r.st
    /\ op' = o
    /\ ret' = [err |-> r.err, node |-> r.node, prio |-> r.prio]
    /\ live' = IF r.err # "none" THEN live
               ELSE IF o = "extract_min" THEN Del(live, r.node)
               ELSE Put(live, n, p)
    /\ UNCHANGED <<kind, avars>>

DG_insert ==
    /\ hist.phase = "fill"
    /\ q.count < 2 ^ hist.order + 1
    /\ \E n \in {q.count + 1} :
          DG_record("insert", QInsert(kind, q, n, DG_key(n)), n, DG_key(n))
    /\ UNCHANGED hist

DG_extract_first ==
    /\ hist.phase = "fill"
    /\ q.count = 2 ^ hist.order + 1
    /\ DG_record("extract_min", QExtractMin(kind, q), NoNode, NoPrio)
    /\ hist' = [hist EXCEPT !.phase = "thin"]

DG_cut ==
    /\ hist.phase = "thin"
    /\ DG_cuts(q) # {}
    /\ \E n \in DG_cuts(q) :
          /\ \A m \in DG_cuts(q) : m <= n
          /\ DG_record("decrease_key", QDecreaseKey(kind, q, n, n), n, n)
    /\ UNCHANGED hist

DG_sink ==
    /\ hist.phase = "thin"
    /\ DG_cuts(q) = {}
    /\ \E n \in DG_sinks(q) :
          /\ \A m \in DG_sinks(q) : n <= m
          /\ DG_record("decrease_key", QDecreaseKey(kind, q, n, n), n, n)
    /\ UNCHANGED hist

DG_drain ==
    /\ hist.phase = "thin"
    /\ ret.err = "none"
    /\ DG_cuts(q) = {}
    /\ DG_sinks(q) = {}
    /\ q.min # NoNode
    /\ q.key[q.min] <= DegreeNodes
    /\ DG_record("extract_min", QExtractMin(kind, q), NoNode, NoPrio)
    /\ UNCHANGED hist

DG_Next == DG_insert \/ DG_extract_first \/ DG_cut \/ DG_sink \/ DG_drain

\* ------------------------------------------------------------- the graphs
\* A graph is the adjacency mapping {u: [(v, w), ...]}: a function from its
\* nodes 1..n to lists of (neighbour, weight) pairs.  The graphs drawn have
\* every node as a key, no self-loop and at most one edge per ordered pair,
\* listed by neighbour.

Pairs(n) == {e \in (1..n) \X (1..n) : e[1] # e[2]}

RECURSIVE AdjList(_, _, _, _)
AdjList(n, W, u, v) ==
    IF v > n THEN <<>>
    ELSE IF u # v /\ W[<<u, v>>] # NoEdge
    THEN <<<<v, W[<<u, v>>]>>>> \o AdjList(n, W, u, v + 1)
    ELSE AdjList(n, W, u, v + 1)

Graphs(n) ==
    {[u \in 1..n |-> AdjList(n, W, u, 1)] : W \in [Pairs(n) -> Weights \cup {NoEdge}]}

\* ---------------------------------------------------------------- dijkstra
\* dj is one call of dijkstra(graph, source, heap_type):
\*   pc     "call" before the body runs, "loop" at the head of the while
\*          loop, "done" when it returned dist, "raised" when an exception
\*          left it, "idle" when no call is modelled
\*   heap, dist  the locals; err the exception
\*   expanded    history: each node whose successors the for loop relaxed,
\*               with dist[u] at that moment, in the order of the iterations

\* for u in graph: for _, w in graph[u]: max_edge += w
RECURSIVE DJ_sum_list(_, _)
DJ_sum_list(nbrs, i) ==
    IF i > Len(nbrs) THEN 0 ELSE nbrs[i][2] + DJ_sum_list(nbrs, i + 1)

RECURSIVE DJ_sum_weights(_, _)
DJ_sum_weights(graph, u) ==
    IF u \notin DOMAIN graph THEN 0
    ELSE DJ_sum_list(graph[u], 1) + DJ_sum_weights(graph, u + 1)

DJ_max_edge(graph) ==
    Let(DJ_sum_weights(graph, 1), LAMBDA max_edge :
    IF max_edge = 0 THEN 1 ELSE max_edge)

\* the test of lines 66-71 never finding v: every improvement is an insert
DJ_in_heap_never(heap_type, heap, v) == FALSE

\* v in the heap, as dijkstra tests it for the three heap classes
DJ_in_heap(heap_type, heap, v) ==
    IF heap_type = "fibonacci" THEN v \in heap.nodes
    ELSE IF heap_type = "binary" THEN v \in DOMAIN heap.pos
    ELSE v \in DOMAIN heap.node_map

\* the for loop with alt = w in place of alt = dist[u] + w
RECURSIVE DJ_relax_edge_only(_, _, _, _, _)
DJ_relax_edge_only(heap_type, st0, u, nbrs, i) ==
    IF i > Len(nbrs) THEN st0
    ELSE Let(st0, LAMBDA st :
         Let(nbrs[i][2], LAMBDA alt :
         IF alt < st.dist[nbrs[i][1]]
         THEN Let(IF DJ_in_heap(heap_type, st.heap, nbrs[i][1])
                  THEN QDecreaseKey(heap_type, st.heap, nbrs[i][1], alt)
                  ELSE QInsert(heap_type, st.heap, nbrs[i][1], alt), LAMBDA r :
              IF r.err # "none"
              THEN [heap |-> r.st, dist |-> [st.dist EXCEPT ![nbrs[i][1]] = alt],
                    err |-> r.err]
              ELSE DJ_relax_edge_only(heap_type,
                            [heap |-> r.st,
                             dist |-> [st.dist EXCEPT ![nbrs[i][1]] = alt],
                             err |-> "none"],
                            u, nbrs, i + 1))
         ELSE DJ_relax_edge_only(heap_type, st, u, nbrs, i + 1)))

\* the for loop over graph.get(u, []), from its i-th pair on;
\* st is [heap, dist, err]
RECURSIVE DJ_relax(_, _, _, _, _)
DJ_relax(heap_type, st0, u, nbrs, i) ==
    IF i > Len(nbrs) THEN st0
    ELSE Let(st0, LAMBDA st :
         Let(st.dist[u] + nbrs[i][2], LAMBDA alt :
         IF alt < st.dist[nbrs[i][1]]
         THEN Let(IF DJ_in_heap(heap_type, st.heap, nbrs[i][1])
                  THEN QDecreaseKey(heap_type, st.heap, nbrs[i][1], alt)
                  ELSE QInsert(heap_type, st.heap, nbrs[i][1], alt), LAMBDA r :
              IF r.err # "none"
              THEN [heap |-> r.st, dist |-> [st.dist EXCEPT ![nbrs[i][1]] = alt],
                    err |-> r.err]
              ELSE DJ_relax(heap_type,
                            [heap |-> r.st,
                             dist |-> [st.dist EXCEPT ![nbrs[i][1]] = alt],
                             err |-> "none"],
                            u, nbrs, i + 1))
         ELSE DJ_relax(heap_type, st, u, nbrs, i + 1)))

DJ_Idle == [pc |-> "idle"]

DJ_Calls ==
    {[pc |-> "call", graph |-> g, source |-> s, heap_type |-> k,
      heap |-> <<>>, dist |-> <<>>, err |-> "none", expanded |-> <<>>] :
        g \in UNION {Graphs(n) : n \in 1..NumNodes}, s \in Nodes, k \in Kinds}

\* lines 30-51: the heap, the distances, the source inserted
DJ_call ==
    /\ dj.pc = "call"
    /\ IF dj.heap_type \notin Kinds
       THEN dj' = [dj EXCEPT !.pc = "raised", !.err = "ValueError"]
       ELSE \E r \in {QInsert(dj.heap_type,
                              QNew(dj.heap_type, DJ_max_edge(dj.graph)),
                              dj.source, 0)} :
               dj' = [dj EXCEPT !.pc = IF r.err = "none" THEN "loop" ELSE "raised",
                                !.heap = r.st,
                                !.dist = Put([v \in DOMAIN dj.graph |-> INF],
                                             dj.source, 0),
                                !.err = r.err]
    /\ UNCHANGED <<qvars, bd, ch>>

\* one iteration of the while loop
DJ_iterate ==
    /\ dj.pc = "loop"
    /\ ~QIsEmpty(dj.heap_type, dj.heap)
    /\ \E r \in {QExtractMin(dj.heap_type, dj.heap)} :
          IF r.err # "none"
          THEN dj' = [dj EXCEPT !.pc = "raised", !.heap = r.st, !.err = r.err]
          ELSE IF r.node = NoNode \/ r.prio > dj.dist[r.node]
          THEN dj' = [dj EXCEPT !.heap = r.st]
          ELSE \E st \in {DJ_relax(dj.heap_type,
                                   [heap |-> r.st, dist |-> dj.dist, err |-> "none"],
                                   r.node,
                                   IF r.node \in DOMAIN dj.graph
                                   THEN dj.graph[r.node] ELSE <<>>,
                                   1)} :
                   dj' = [dj EXCEPT !.pc = IF st.err = "none" THEN "loop" ELSE "raised",
                                    !.heap = st.heap, !.dist = st.dist, !.err = st.err,
                                    !.expanded = Append(dj.expanded,
                                                        <<r.node, dj.dist[r.node]>>)]
    /\ UNCHANGED <<qvars, bd, ch>>

\* the loop ends: return dist
DJ_return ==
    /\ dj.pc = "loop"
    /\ QIsEmpty(dj.heap_type, dj.heap)
    /\ dj' = [dj EXCEPT !.pc = "done"]
    /\ UNCHANGED <<qvars, bd, ch>>

\* ---------------------------------------------------- BidirectionalDijkstra
\* bd is one BidirectionalDijkstra object and one find_shortest_path call:
\*   pc  "new" before __init__, "ready" after it, "loop" at the head of the
\*       while loop, "done" when the call returned result, "raised" when an
\*       exception left it
\*   skew is kept as a number of SkewSteps-ths

\* the keys of a reverse graph: the keys of graph and every edge target
BD_rev_keys(graph) ==
    DOMAIN graph \cup {graph[u][i][1] : <<u, i>> \in
                        {e \in (DOMAIN graph) \X (1..NumNodes) : e[2] <= Len(graph[e[1]])}}

\* the (u, w) pairs rev[v] collects from graph[u], from its i-th pair on
RECURSIVE BD_rev_from(_, _, _, _)
BD_rev_from(nbrs, u, v, i) ==
    IF i > Len(nbrs) THEN <<>>
    ELSE IF nbrs[i][1] = v
    THEN <<<<u, nbrs[i][2]>>>> \o BD_rev_from(nbrs, u, v, i + 1)
    ELSE BD_rev_from(nbrs, u, v, i + 1)

\* rev[v], over the keys u of graph in order
RECURSIVE BD_rev_list(_, _, _)
BD_rev_list(graph, v, u) ==
    IF u \notin DOMAIN graph THEN <<>>
    ELSE BD_rev_from(graph[u], u, v, 1) \o BD_rev_list(graph, v, u + 1)

BD_build_reverse_graph(graph) ==
    [v \in BD_rev_keys(graph) |-> BD_rev_list(graph, v, 1)]

\* the largest weight of graph[u], from its i-th pair on, or max_w
RECURSIVE BD_max_list(_, _, _)
BD_max_list(nbrs, i, max_w) ==
    IF i > Len(nbrs) THEN max_w
    ELSE BD_max_list(nbrs, i + 1, IF nbrs[i][2] > max_w THEN nbrs[i][2] ELSE max_w)

RECURSIVE BD_max_w(_, _, _)
BD_max_w(graph, u, max_w) ==
    IF u \notin DOMAIN graph THEN max_w
    ELSE BD_max_w(graph, u + 1, BD_max_list(graph[u], 1, max_w))

\* self.max_key of __init__
BD_max_key(graph, heap_type) ==
    IF heap_type # "radix" THEN 0
    ELSE Let(BD_max_w(graph, 1, 0), LAMBDA max_w :
         (IF max_w = 0 THEN 1 ELSE max_w)
             * (IF Cardinality(DOMAIN graph) - 1 > 1
                THEN Cardinality(DOMAIN graph) - 1 ELSE 1))

\* heap.peek(): none of BinaryHeap, FibonacciHeap and RadixHeap has a peek
\* attribute, so the call raises AttributeError
QPeek(k, h) == Ret(h, "AttributeError", NoNode, NoPrio)

BD_Calls ==
    {[pc |-> "new", graph |-> g, heap_type |-> k, skew |-> sk,
      source |-> s, target |-> t,
      reverse_graph |-> <<>>, max_key |-> 0,
      f_heap |-> <<>>, b_heap |-> <<>>, f_dist |-> <<>>, b_dist |-> <<>>,
      mu |-> INF, result |-> INF, err |-> "none"] :
        g \in UNION {Graphs(n) : n \in 1..MaxSearchNodes},
        k \in Kinds, sk \in 0..SkewSteps,
        s \in 1..MaxSearchNodes, t \in 1..MaxSearchNodes}

\* BidirectionalDijkstra(graph, heap_type, skew)
BD_init ==
    /\ bd.pc = "new"
    /\ bd' = [bd EXCEPT !.pc = "ready",
                        !.reverse_graph = BD_build_reverse_graph(bd.graph),
                        !.max_key = BD_max_key(bd.graph, bd.heap_type)]
    /\ UNCHANGED <<qvars, dj, ch>>

\* self._init_heap(): a queue of the variant self.heap_type names, or
\* ValueError for any other tag
BD_init_heap(c) ==
    IF c.heap_type \in Kinds
    THEN Ret(QNew(c.heap_type, c.max_key), "none", NoNode, NoPrio)
    ELSE Ret(<<>>, "ValueError", NoNode, NoPrio)

\* the set-up of the two searches: lines 81-90
BD_start ==
    \E hf \in {BD_init_heap(bd)}, hb \in {BD_init_heap(bd)} :
        IF hf.err # "none" \/ hb.err # "none"
        THEN bd' = [bd EXCEPT !.pc = "raised",
                              !.err = IF hf.err # "none" THEN hf.err ELSE hb.err]
        ELSE \E f \in {QInsert(bd.heap_type, hf.st, bd.source, 0)},
                b \in {QInsert(bd.heap_type, hb.st, bd.target, 0)} :
                bd' = [bd EXCEPT !.pc = IF f.err = "none" /\ b.err = "none"
                                        THEN "loop" ELSE "raised",
                                 !.err = IF f.err # "none" THEN f.err ELSE b.err,
                                 !.f_heap = f.st, !.b_heap = b.st,
                                 !.f_dist = Put(EmptyMap, bd.source, 0),
                                 !.b_dist = Put(EmptyMap, bd.target, 0),
                                 !.mu = INF]

\* find_shortest_path with the membership test before the test
\* source == target
BD_find_shortest_path_membership_first ==
    /\ bd.pc = "ready"
    /\ IF bd.source \notin DOMAIN bd.graph \/ bd.target \notin DOMAIN bd.graph
       THEN bd' = [bd EXCEPT !.pc = "done", !.result = INF]
       ELSE IF bd.source = bd.target
       THEN bd' = [bd EXCEPT !.pc = "done", !.result = 0]
       ELSE BD_start
    /\ UNCHANGED <<qvars, dj, ch>>

\* find_shortest_path without the membership test
BD_find_shortest_path_unchecked ==
    /\ bd.pc = "ready"
    /\ IF bd.source = bd.target
       THEN bd' = [bd EXCEPT !.pc = "done", !.result = 0]
       ELSE BD_start
    /\ UNCHANGED <<qvars, dj, ch>>

\* find_shortest_path(source, target) up to the while loop
BD_find_shortest_path ==
    /\ bd.pc = "ready"
    /\ IF bd.source = bd.target
       THEN bd' = [bd EXCEPT !.pc = "done", !.result = 0]
       ELSE IF bd.source \notin DOMAIN bd.graph \/ bd.target \notin DOMAIN bd.graph
       THEN bd' = [bd EXCEPT !.pc = "done", !.result = INF]
       ELSE BD_start
    /\ UNCHANGED <<qvars, dj, ch>>

\* the head of the while loop and the termination check of its body: the
\* first statement of the body, f_heap.peek(), raises, so nothing after it
\* ever runs
BD_loop ==
    /\ bd.pc = "loop"
    /\ IF QIsEmpty(bd.heap_type, bd.f_heap) \/ QIsEmpty(bd.heap_type, bd.b_heap)
       THEN bd' = [bd EXCEPT !.pc = "done", !.result = bd.mu]
       ELSE bd' = [bd EXCEPT !.pc = "raised",
                             !.err = QPeek(bd.heap_type, bd.f_heap).err]
    /\ UNCHANGED <<qvars, dj, ch>>

\* ----------------------------------------------------- ContractionHierarchy
\* ch is one ContractionHierarchy object, its preprocess call and one query:
\*   pc  "new" before __init__, "ready" after it, "loop" at the head of the
\*       while loop of preprocess, "preprocessed" when preprocess returned,
\*       "raised" when an exception left it, "answered" after the query
\*   pre how preprocess ended ("returned", "raised"), result and err how the
\*       query ended
\*   original_graph is the caller's mapping, which self.original_graph refers
\*       to; shared tells whether self.graph is that same object

\* dict.get(k, default)
Get(f, k, default) == IF k \in DOMAIN f THEN f[k] ELSE default

\* the keys of a mapping as a list, in order
RECURSIVE KeyList(_, _)
KeyList(f, k) ==
    IF \A m \in DOMAIN f : m < k THEN <<>>
    ELSE IF k \in DOMAIN f THEN <<k>> \o KeyList(f, k + 1)
    ELSE KeyList(f, k + 1)

\* [v for v, w in nbrs if not self.is_contracted[v]]
RECURSIVE CH_open(_, _, _)
CH_open(c, nbrs, i) ==
    IF i > Len(nbrs) THEN <<>>
    ELSE IF ~c.is_contracted[nbrs[i][1]]
    THEN <<nbrs[i][1]>> \o CH_open(c, nbrs, i + 1)
    ELSE CH_open(c, nbrs, i + 1)

\* the loop of _get_weight over graph.get(u, []): the least weight to v so far
RECURSIVE CH_weight_from(_, _, _, _)
CH_weight_from(nbrs, v, i, min_w) ==
    IF i > Len(nbrs) THEN min_w
    ELSE CH_weight_from(nbrs, v, i + 1,
                        IF nbrs[i][1] = v /\ nbrs[i][2] < min_w
                        THEN nbrs[i][2] ELSE min_w)

CH_get_weight(c, u, v) == CH_weight_from(Get(c.graph, u, <<>>), v, 1, INF)

\* the for loop of _local_dijkstra over graph.get(u, []); st is [heap, dist]
RECURSIVE CH_local_relax(_, _, _, _, _, _)
CH_local_relax(c, st0, d, exclude, nbrs, i) ==
    IF i > Len(nbrs) THEN st0
    ELSE Let(st0, LAMBDA st :
         IF nbrs[i][1] = exclude \/ c.is_contracted[nbrs[i][1]]
         THEN CH_local_relax(c, st, d, exclude, nbrs, i + 1)
         ELSE IF d + nbrs[i][2] < Get(st.dist, nbrs[i][1], INF)
         THEN CH_local_relax(c,
                  [heap |-> (IF BH_contains(st.heap, nbrs[i][1])
                             THEN BH_decrease_key(st.heap, nbrs[i][1], d + nbrs[i][2])
                             ELSE BH_insert(st.heap, nbrs[i][1], d + nbrs[i][2])).st,
                   dist |-> Put(st.dist, nbrs[i][1], d + nbrs[i][2])],
                  d, exclude, nbrs, i + 1)
         ELSE CH_local_relax(c, st, d, exclude, nbrs, i + 1))

\* the while loop of _local_dijkstra
RECURSIVE CH_local_loop(_, _, _, _, _)
CH_local_loop(c, st0, target, limit, exclude) ==
    Let(st0, LAMBDA st :
    IF BH_is_empty(st.heap) THEN Get(st.dist, target, INF)
    ELSE Let(BH_extract_min(st.heap), LAMBDA r :
         IF r.prio > limit THEN INF
         ELSE IF r.node = target THEN r.prio
         ELSE IF r.prio > st.dist[r.node]
         THEN CH_local_loop(c, [st EXCEPT !.heap = r.st], target, limit, exclude)
         ELSE CH_local_loop(c,
                  CH_local_relax(c, [st EXCEPT !.heap = r.st], r.prio, exclude,
                                 Get(c.graph, r.node, <<>>), 1),
                  target, limit, exclude)))

CH_local_dijkstra(c, source, target, limit, exclude) ==
    CH_local_loop(c, [heap |-> BH_insert(BinaryHeap, source, 0).st,
                      dist |-> Put(EmptyMap, source, 0)],
                  target, limit, exclude)

\* the test of _contract_node with witness_dist >= target_dist
CH_needs_shortcut_on_equal(c, u, iv, ov) ==
    /\ iv # ov
    /\ CH_local_dijkstra(c, iv, ov, CH_get_weight(c, iv, u) + CH_get_weight(c, u, ov), u)
          >= CH_get_weight(c, iv, u) + CH_get_weight(c, u, ov)

\* a shortcut iv -> ov over u is needed: no witness path is as short
CH_needs_shortcut(c, u, iv, ov) ==
    /\ iv # ov
    /\ CH_local_dijkstra(c, iv, ov, CH_get_weight(c, iv, u) + CH_get_weight(c, u, ov), u)
          > CH_get_weight(c, iv, u) + CH_get_weight(c, u, ov)

CH_compute_importance(c, u) ==
    IF c.is_contracted[u] THEN INF
    ELSE Let(CH_open(c, Get(c.reverse_graph, u, <<>>), 1), LAMBDA incoming :
         Let(CH_open(c, Get(c.graph, u, <<>>), 1), LAMBDA outgoing :
         Cardinality({e \in (1..Len(incoming)) \X (1..Len(outgoing)) :
                         CH_needs_shortcut(c, u, incoming[e[1]], outgoing[e[2]])})
             - (Len(incoming) + Len(outgoing))))

\* self.graph = graph: the hierarchy works on the caller's mapping itself
CH_alias(graph) == [value |-> graph, shared |-> TRUE]

\* copy.deepcopy(graph): an equal mapping that shares nothing with the
\* caller's, so that no write to it shows in the caller's
CH_deepcopy(graph) == [value |-> graph, shared |-> FALSE]

\* _add_edge without the lines 215-217, which append to reverse_graph
CH_add_edge_forward_only(c, u, v, w, middle_node) ==
    [c EXCEPT !.graph = Put(@, u, Append(Get(@, u, <<>>), <<v, w>>)),
              !.original_graph = IF c.shared
                                 THEN Put(@, u, Append(Get(@, u, <<>>), <<v, w>>))
                                 ELSE @,
              !.shortcuts = Put(@, <<u, v>>, middle_node)]

CH_add_edge(c, u, v, w, middle_node) ==
    [c EXCEPT !.graph = Put(@, u, Append(Get(@, u, <<>>), <<v, w>>)),
              !.original_graph = IF c.shared
                                 THEN Put(@, u, Append(Get(@, u, <<>>), <<v, w>>))
                                 ELSE @,
              !.reverse_graph = Put(@, v, Append(Get(@, v, <<>>), <<u, w>>)),
              !.shortcuts = Put(@, <<u, v>>, middle_node)]

\* the two for loops of _contract_node, from the pair (i, j) on
RECURSIVE CH_contract_from(_, _, _, _, _, _)
CH_contract_from(c0, u, incoming, outgoing, i, j) ==
    IF i > Len(incoming) THEN c0
    ELSE IF j > Len(outgoing) THEN CH_contract_from(c0, u, incoming, outgoing, i + 1, 1)
    ELSE Let(c0, LAMBDA c :
         IF CH_needs_shortcut(c, u, incoming[i], outgoing[j])
         THEN CH_contract_from(
                  CH_add_edge(c, incoming[i], outgoing[j],
                              CH_get_weight(c, incoming[i], u)
                                  + CH_get_weight(c, u, outgoing[j]), u),
                  u, incoming, outgoing, i, j + 1)
         ELSE CH_contract_from(c, u, incoming, outgoing, i, j + 1))

CH_contract_node(c, u) ==
    CH_contract_from(c, u, CH_open(c, Get(c.reverse_graph, u, <<>>), 1),
                     CH_open(c, Get(c.graph, u, <<>>), 1), 1, 1)

\* for node in self.nodes: pq.insert(node, self._compute_importance(node))
RECURSIVE CH_fill(_, _, _)
CH_fill(c, pq, i) ==
    IF i > Len(c.nodes) THEN pq
    ELSE CH_fill(c, BH_insert(pq, c.nodes[i], CH_compute_importance(c, c.nodes[i])).st,
                 i + 1)

CH_Calls ==
    {[pc |-> "new", original_graph |-> g, graph |-> <<>>, nodes |-> <<>>,
      node_order |-> <<>>, rank |-> EmptyMap, is_contracted |-> <<>>,
      shortcuts |-> EmptyMap, reverse_graph |-> <<>>,
      pq |-> <<>>, rank_counter |-> 0, pre |-> "none", shared |-> FALSE,
      source |-> NoNode, target |-> NoNode, result |-> INF, err |-> "none"] :
        g \in UNION {Graphs(n) : n \in 1..NumNodes}}

\* the mappings in which some node is only an edge endpoint: a graph of
\* Graphs(n) with the keys outside K left out, every node of 1..n being a
\* key or the endpoint of an edge that stays
CH_EndpointCalls ==
    {[c EXCEPT !.original_graph = [u \in K |-> c.original_graph[u]]] :
        <<c, K>> \in {e \in CH_Calls \X ((SUBSET Nodes) \ {{}}) :
                        /\ e[2] \subseteq DOMAIN e[1].original_graph
                        /\ e[2] # DOMAIN e[1].original_graph
                        /\ BD_rev_keys([u \in e[2] |-> e[1].original_graph[u]])
                              = DOMAIN e[1].original_graph}}

\* ContractionHierarchy(graph)
CH_init ==
    /\ ch.pc = "new"
    /\ \E cp \in {CH_deepcopy(ch.original_graph)} :
       \E g \in {[v \in BD_rev_keys(cp.value) |-> Get(cp.value, v, <<>>)]} :
          ch' = [ch EXCEPT !.pc = "ready",
                           !.shared = cp.shared,
                           !.original_graph = IF cp.shared THEN g ELSE @,
                           !.graph = g,
                           !.nodes = KeyList(g, 1),
                           !.is_contracted = [v \in DOMAIN g |-> FALSE],
                           !.reverse_graph = BD_build_reverse_graph(g)]
    /\ UNCHANGED <<qvars, dj, bd>>

\* preprocess up to the while loop
CH_preprocess ==
    /\ ch.pc = "ready"
    /\ ch' = [ch EXCEPT !.pc = "loop",
                        !.pq = CH_fill(ch, BinaryHeap, 1),
                        !.rank_counter = 0]
    /\ UNCHANGED <<qvars, dj, bd>>

\* one iteration of the while loop of preprocess: with another node left in
\* pq, pq.peek() raises and nothing after it runs
CH_preprocess_iterate ==
    /\ ch.pc = "loop"
    /\ ~BH_is_empty(ch.pq)
    /\ \E r \in {BH_extract_min(ch.pq)} :
          IF ~BH_is_empty(r.st)
          THEN ch' = [ch EXCEPT !.pc = "raised", !.pre = "raised", !.pq = r.st,
                                !.err = QPeek("binary", r.st).err]
          ELSE \E c \in {CH_contract_node(
                             [ch EXCEPT !.pq = r.st,
                                        !.rank = Put(@, r.node, ch.rank_counter),
                                        !.node_order = Append(@, r.node),
                                        !.rank_counter = @ + 1],
                             r.node)} :
                   ch' = [c EXCEPT !.is_contracted[r.node] = TRUE]
    /\ UNCHANGED <<qvars, dj, bd>>

\* the while loop of preprocess ends
CH_preprocess_return ==
    /\ ch.pc = "loop"
    /\ BH_is_empty(ch.pq)
    /\ ch' = [ch EXCEPT !.pc = "preprocessed", !.pre = "returned"]
    /\ UNCHANGED <<qvars, dj, bd>>

\* the for loop without the test rank[u] < rank[v]
RECURSIVE CH_query_relax_any_rank(_, _, _, _, _, _)
CH_query_relax_any_rank(c, st0, u, d, nbrs, i) ==
    IF i > Len(nbrs) THEN st0
    ELSE Let(st0, LAMBDA st :
         IF d + nbrs[i][2] < Get(st.dist, nbrs[i][1], INF)
         THEN CH_query_relax_any_rank(c,
                  [heap |-> (IF BH_contains(st.heap, nbrs[i][1])
                             THEN BH_decrease_key(st.heap, nbrs[i][1], d + nbrs[i][2])
                             ELSE BH_insert(st.heap, nbrs[i][1], d + nbrs[i][2])).st,
                   dist |-> Put(st.dist, nbrs[i][1], d + nbrs[i][2]),
                   other |-> st.other,
                   mu |-> IF nbrs[i][1] \in DOMAIN st.other
                             /\ d + nbrs[i][2] + st.other[nbrs[i][1]] < st.mu
                          THEN d + nbrs[i][2] + st.other[nbrs[i][1]]
                          ELSE st.mu,
                   err |-> "none"],
                  u, d, nbrs, i + 1)
         ELSE CH_query_relax_any_rank(c, st, u, d, nbrs, i + 1))

\* the for loop of one search step of query over the pairs of u, from the
\* i-th on; st is [heap, dist, other, mu, err]: the heap and distances of
\* the searching side, the distances of the other side
RECURSIVE CH_query_relax(_, _, _, _, _, _)
CH_query_relax(c, st0, u, d, nbrs, i) ==
    IF i > Len(nbrs) THEN st0
    ELSE Let(st0, LAMBDA st :
         IF u \notin DOMAIN c.rank \/ nbrs[i][1] \notin DOMAIN c.rank
         THEN [st EXCEPT !.err = "KeyError"]
         ELSE IF c.rank[u] < c.rank[nbrs[i][1]]
                 /\ d + nbrs[i][2] < Get(st.dist, nbrs[i][1], INF)
         THEN CH_query_relax(c,
                  [heap |-> (IF BH_contains(st.heap, nbrs[i][1])
                             THEN BH_decrease_key(st.heap, nbrs[i][1], d + nbrs[i][2])
                             ELSE BH_insert(st.heap, nbrs[i][1], d + nbrs[i][2])).st,
                   dist |-> Put(st.dist, nbrs[i][1], d + nbrs[i][2]),
                   other |-> st.other,
                   mu |-> IF nbrs[i][1] \in DOMAIN st.other
                             /\ d + nbrs[i][2] + st.other[nbrs[i][1]] < st.mu
                          THEN d + nbrs[i][2] + st.other[nbrs[i][1]]
                          ELSE st.mu,
                   err |-> "none"],
                  u, d, nbrs, i + 1)
         ELSE CH_query_relax(c, st, u, d, nbrs, i + 1))

\* the step leaving a pruned pair in its heap
CH_query_step_keeps_pruned(c, st, g) ==
    IF BH_is_empty(st.heap) THEN st
    ELSE Let(BH_extract_min(st.heap), LAMBDA r :
         IF r.prio <= st.mu /\ r.prio <= st.dist[r.node]
         THEN CH_query_relax(c, [st EXCEPT !.heap = r.st], r.node, r.prio,
                             Get(g, r.node, <<>>), 1)
         ELSE st)

\* the forward step (g the graph) or the backward step (g the reverse graph)
CH_query_step(c, st, g) ==
    IF BH_is_empty(st.heap) THEN st
    ELSE Let(BH_extract_min(st.heap), LAMBDA r :
         IF r.prio <= st.mu /\ r.prio <= st.dist[r.node]
         THEN CH_query_relax(c, [st EXCEPT !.heap = r.st], r.node, r.prio,
                             Get(g, r.node, <<>>), 1)
         ELSE [st EXCEPT !.heap = r.st])

\* the while loop of query; st is [f_heap, b_heap, f_dist, b_dist, mu, err]
RECURSIVE CH_query_loop(_, _)
CH_query_loop(c, st0) ==
    Let(st0, LAMBDA st :
    IF BH_is_empty(st.f_heap) /\ BH_is_empty(st.b_heap) THEN st
    ELSE Let(CH_query_step(c, [heap |-> st.f_heap, dist |-> st.f_dist,
                               other |-> st.b_dist, mu |-> st.mu, err |-> "none"],
                           c.graph), LAMBDA f :
         IF f.err # "none" THEN [st EXCEPT !.err = f.err]
         ELSE Let(CH_query_step(c, [heap |-> st.b_heap, dist |-> st.b_dist,
                                    other |-> f.dist, mu |-> f.mu, err |-> "none"],
                                c.reverse_graph), LAMBDA b :
              IF b.err # "none" THEN [st EXCEPT !.err = b.err]
              ELSE CH_query_loop(c, [f_heap |-> f.heap, b_heap |-> b.heap,
                                     f_dist |-> f.dist, b_dist |-> b.dist,
                                     mu |-> b.mu, err |-> "none"]))))

\* query with the test source == target before the membership test
CH_query_result_same_first(c, source, target) ==
    IF source = target
    THEN [result |-> 0, err |-> "none"]
    ELSE IF source \notin DOMAIN c.graph \/ target \notin DOMAIN c.graph
    THEN [result |-> INF, err |-> "none"]
    ELSE [result |-> CH_query_loop(c, [f_heap |-> BH_insert(BinaryHeap, source, 0).st,
                                       b_heap |-> BH_insert(BinaryHeap, target, 0).st,
                                       f_dist |-> Put(EmptyMap, source, 0),
                                       b_dist |-> Put(EmptyMap, target, 0),
                                       mu |-> INF, err |-> "none"]).mu,
          err |-> "none"]

\* query(source, target): [result, err]
CH_query_result(c, source, target) ==
    IF source \notin DOMAIN c.graph \/ target \notin DOMAIN c.graph
    THEN [result |-> INF, err |-> "none"]
    ELSE IF source = target
    THEN [result |-> 0, err |-> "none"]
    ELSE Let(CH_query_loop(c, [f_heap |-> BH_insert(BinaryHeap, source, 0).st,
                               b_heap |-> BH_insert(BinaryHeap, target, 0).st,
                               f_dist |-> Put(EmptyMap, source, 0),
                               b_dist |-> Put(EmptyMap, target, 0),
                               mu |-> INF, err |-> "none"]), LAMBDA st :
         [result |-> st.mu, err |-> st.err])

\* query(source, target) once preprocess has ended, by return or by exception
CH_query(source, target) ==
    /\ ch.pc \in {"preprocessed", "raised"}
    /\ \E r \in {CH_query_result(ch, source, target)} :
          ch' = [ch EXCEPT !.pc = "answered", !.source = source, !.target = target,
                           !.result = r.result, !.err = r.err]
    /\ UNCHANGED <<qvars, dj, bd>>

\* ------------------------------------------- contraction, one pair at a time
\* The contraction of preprocess (lines 82-87) applied to the uncontracted
\* nodes in any order, _contract_node one (iv, ov) pair at a time:
\*   pc    "new", "ready" between contractions, "pairs" inside _contract_node
\*   cu    the node being contracted, pairs the (iv, ov) pairs of its two
\*         for loops in order, k the next one
\*   last  what the last pair did: "added" a shortcut or "skipped"
\*   given the mapping as the caller built it, before the constructor ran

\* the (iv, ov) pairs of the loops of _contract_node, from incoming[i] on
RECURSIVE CT_pairs(_, _, _)
CT_pairs(incoming, outgoing, i) ==
    IF i > Len(incoming) THEN <<>>
    ELSE [j \in 1..Len(outgoing) |-> <<incoming[i], outgoing[j]>>]
             \o CT_pairs(incoming, outgoing, i + 1)

\* the graphs on n nodes whose edges all weigh 1
UnitGraphs(n) ==
    {[u \in 1..n |-> AdjList(n, W, u, 1)] : W \in [Pairs(n) -> {1, NoEdge}]}

CT_Calls ==
    {[pc |-> "new", original_graph |-> g, graph |-> <<>>, nodes |-> <<>>,
      node_order |-> <<>>, rank |-> EmptyMap, is_contracted |-> <<>>,
      shortcuts |-> EmptyMap, reverse_graph |-> <<>>, rank_counter |-> 0,
      cu |-> NoNode, pairs |-> <<>>, k |-> 1, last |-> "none",
      shared |-> FALSE, given |-> g] :
        g \in UNION {Graphs(n) : n \in 1..NumNodes} \cup UnitGraphs(MaxContractNodes)}

\* lines 82-84 for the node u, and the two lists of _contract_node
CT_begin(u) ==
    /\ ch.pc = "ready"
    /\ u \in DOMAIN ch.graph
    /\ ~ch.is_contracted[u]
    /\ ch' = [ch EXCEPT !.pc = "pairs",
                        !.rank = Put(@, u, ch.rank_counter),
                        !.node_order = Append(@, u),
                        !.rank_counter = @ + 1,
                        !.cu = u,
                        !.pairs = CT_pairs(CH_open(ch, Get(ch.reverse_graph, u, <<>>), 1),
                                           CH_open(ch, Get(ch.graph, u, <<>>), 1), 1),
                        !.k = 1,
                        !.last = "none"]
    /\ UNCHANGED <<qvars, dj, bd>>

\* the body of the inner for loop for the next pair
CT_pair ==
    /\ ch.pc = "pairs"
    /\ ch.k <= Len(ch.pairs)
    /\ \E e \in {ch.pairs[ch.k]} :
          IF CH_needs_shortcut(ch, ch.cu, e[1], e[2])
          THEN ch' = [CH_add_edge(ch, e[1], e[2],
                                  CH_get_weight(ch, e[1], ch.cu)
                                      + CH_get_weight(ch, ch.cu, e[2]), ch.cu)
                         EXCEPT !.k = @ + 1, !.last = "added"]
          ELSE ch' = [ch EXCEPT !.k = @ + 1, !.last = "skipped"]
    /\ UNCHANGED <<qvars, dj, bd>>

\* _contract_node returns: line 87
CT_end ==
    /\ ch.pc = "pairs"
    /\ ch.k > Len(ch.pairs)
    /\ ch' = [ch EXCEPT !.pc = "ready", !.is_contracted[ch.cu] = TRUE]
    /\ UNCHANGED <<qvars, dj, bd>>

\* ------------------------------------------------ query, one iteration at a time
\* The contraction of preprocess (lines 82-87) applied to the uncontracted
\* nodes in any order, then query(source, target) followed through its while
\* loop, and asked again by the caller:
\*   pc     "new", "ready" while nodes are left to contract, "preprocessed",
\*          "query" at the head of the while loop of query, "answered"
\*   f_heap, b_heap, f_dist, b_dist, mu  the locals of query
\*   asked  the calls of query so far, first the value the first one returned

\* the graphs on n nodes whose edges weigh 0 or 1
QueryGraphs(n) ==
    {[u \in 1..n |-> AdjList(n, W, u, 1)] : W \in [Pairs(n) -> {0, 1, NoEdge}]}

CH_QueryCalls ==
    {[pc |-> "new", original_graph |-> g, graph |-> <<>>, nodes |-> <<>>,
      node_order |-> <<>>, rank |-> EmptyMap, is_contracted |-> <<>>,
      shortcuts |-> EmptyMap, reverse_graph |-> <<>>, rank_counter |-> 0,
      pre |-> "none", shared |-> FALSE,
      source |-> NoNode, target |-> NoNode, result |-> INF, err |-> "none",
      f_heap |-> BinaryHeap, b_heap |-> BinaryHeap,
      f_dist |-> EmptyMap, b_dist |-> EmptyMap,
      mu |-> INF, asked |-> 0, first |-> NoPrio] :
        g \in UNION {QueryGraphs(n) : n \in 1..NumNodes}}

\* lines 82-87 for the node u
CH_contract(u) ==
    /\ ch.pc = "ready"
    /\ u \in DOMAIN ch.graph
    /\ ~ch.is_contracted[u]
    /\ \E c \in {CH_contract_node([ch EXCEPT !.rank = Put(@, u, ch.rank_counter),
                                            !.node_order = Append(@, u),
                                            !.rank_counter = @ + 1], u)} :
          ch' = [c EXCEPT !.is_contracted[u] = TRUE]
    /\ UNCHANGED <<qvars, dj, bd>>

\* every node is contracted: preprocess returns
CH_contracted ==
    /\ ch.pc = "ready"
    /\ \A u \in DOMAIN ch.graph : ch.is_contracted[u]
    /\ ch' = [ch EXCEPT !.pc = "preprocessed", !.pre = "returned"]
    /\ UNCHANGED <<qvars, dj, bd>>

\* query(source, target) up to the while loop (lines 228-242); the second
\* call repeats the first
CH_query_begin(source, target) ==
    /\ \/ ch.pc = "preprocessed"
       \/ ch.pc = "answered" /\ ch.asked < MaxQueries
                             /\ source = ch.source /\ target = ch.target
    /\ \E c \in {[ch EXCEPT !.source = source, !.target = target,
                            !.asked = @ + 1,
                            !.first = IF ch.asked = 0 THEN @ ELSE ch.result]} :
          IF source \notin DOMAIN ch.graph \/ target \notin DOMAIN ch.graph
          THEN ch' = [c EXCEPT !.pc = "answered", !.result = INF]
          ELSE IF source = target
          THEN ch' = [c EXCEPT !.pc = "answered", !.result = 0]
          ELSE ch' = [c EXCEPT !.pc = "query",
                               !.f_heap = BH_insert(BinaryHeap, source, 0).st,
                               !.b_heap = BH_insert(BinaryHeap, target, 0).st,
                               !.f_dist = Put(EmptyMap, source, 0),
                               !.b_dist = Put(EmptyMap, target, 0),
                               !.mu = INF]
    /\ UNCHANGED <<qvars, dj, bd>>

\* one iteration of the while loop: the forward step, then the backward step
CH_query_iterate ==
    /\ ch.pc = "query"
    /\ ~(BH_is_empty(ch.f_heap) /\ BH_is_empty(ch.b_heap))
    /\ \E f \in {CH_query_step(ch, [heap |-> ch.f_heap, dist |-> ch.f_dist,
                                    other |-> ch.b_dist, mu |-> ch.mu,
                                    err |-> "none"], ch.graph)} :
          IF f.err # "none"
          THEN ch' = [ch EXCEPT !.pc = "answered", !.err = f.err]
          ELSE \E b \in {CH_query_step(ch, [heap |-> ch.b_heap, dist |-> ch.b_dist,
                                            other |-> f.dist, mu |-> f.mu,
                                            err |-> "none"], ch.reverse_graph)} :
                  IF b.err # "none"
                  THEN ch' = [ch EXCEPT !.pc = "answered", !.err = b.err]
                  ELSE ch' = [ch EXCEPT !.f_heap = f.heap, !.b_heap = b.heap,
                                        !.f_dist = f.dist, !.b_dist = b.dist,
                                        !.mu = b.mu]
    /\ UNCHANGED <<qvars, dj, bd>>

\* query that keeps a finite answer as an edge source -> target of the
\* hierarchy before it returns it
CH_query_return_caching ==
    /\ ch.pc = "query"
    /\ BH_is_empty(ch.f_heap) /\ BH_is_empty(ch.b_heap)
    /\ ch' = [(IF ch.mu < INF
               THEN CH_add_edge(ch, ch.source, ch.target, ch.mu, NoNode)
               ELSE ch) EXCEPT !.pc = "answered", !.result = ch.mu]
    /\ UNCHANGED <<qvars, dj, bd>>

\* both heaps are empty: return mu
CH_query_return ==
    /\ ch.pc = "query"
    /\ BH_is_empty(ch.f_heap) /\ BH_is_empty(ch.b_heap)
    /\ ch' = [ch EXCEPT !.pc = "answered", !.result = ch.mu]
    /\ UNCHANGED <<qvars, dj, bd>>

\* dijkstra called with any tag, on the graphs of the bidirectional search
DJ_TagCalls ==
    {[pc |-> "call", graph |-> g, source |-> s, heap_type |-> k,
      heap |-> <<>>, dist |-> <<>>, err |-> "none", expanded |-> <<>>] :
        g \in UNION {Graphs(n) : n \in 1..MaxSearchNodes},
        s \in 1..MaxSearchNodes, k \in Tags}

\* acyclic graphs on 1..n: an edge u -> v only for u < v, positive weights
DagWeights == {1, MaxDagWeight - 1, MaxDagWeight}

DagGraphs(n) ==
    {[u \in 1..n |->
         AdjList(n, [e \in Pairs(n) |-> IF e[1] < e[2] THEN F[e] ELSE NoEdge], u, 1)] :
        F \in [{e \in Pairs(n) : e[1] < e[2]} -> DagWeights \cup {NoEdge}]}

\* dijkstra called from node 1 of such a graph
DJ_DagCalls ==
    {[pc |-> "call", graph |-> g, source |-> 1, heap_type |-> k,
      heap |-> <<>>, dist |-> <<>>, err |-> "none", expanded |-> <<>>] :
        g \in DagGraphs(MaxDagNodes), k \in Kinds}

\* ------------------------------- ContractionHierarchy of contraction_hierarchy_all
\* The class with the queue chosen by heap_type.  ch is then the object with
\* the fields heap_type and max_key and without shortcuts:
\*   pc  "new", "ready", "searched" after one witness search of
\*       _compute_importance, "loop" in preprocess, "preprocessed", "raised"
\*   cu, iv, ov, limit, witness_dist  the node, the pair, target_dist and the
\*       value of the search of lines 149-153

PRIORITY_OFFSET == 1000000

\* self.max_key of __init__ (lines 57-68)
CHA_max_key(graph, heap_type) == BD_max_key(graph, heap_type)

\* the for loop of _local_dijkstra over graph.get(u, []); st is
\* [heap, dist, err]
RECURSIVE CHA_local_relax(_, _, _, _, _, _)
CHA_local_relax(c, st0, d, exclude, nbrs, i) ==
    IF i > Len(nbrs) \/ st0.err # "none" THEN st0
    ELSE Let(st0, LAMBDA st :
         IF nbrs[i][1] = exclude \/ c.is_contracted[nbrs[i][1]]
         THEN CHA_local_relax(c, st, d, exclude, nbrs, i + 1)
         ELSE IF d + nbrs[i][2] < Get(st.dist, nbrs[i][1], INF)
         THEN Let(IF QContains(c.heap_type, st.heap, nbrs[i][1])
                  THEN QDecreaseKey(c.heap_type, st.heap, nbrs[i][1], d + nbrs[i][2])
                  ELSE QInsert(c.heap_type, st.heap, nbrs[i][1], d + nbrs[i][2]),
                  LAMBDA r :
              CHA_local_relax(c,
                  [heap |-> r.st,
                   dist |-> Put(st.dist, nbrs[i][1], d + nbrs[i][2]),
                   err |-> r.err],
                  d, exclude, nbrs, i + 1))
         ELSE CHA_local_relax(c, st, d, exclude, nbrs, i + 1))

\* the while loop of _local_dijkstra: [value, err]
RECURSIVE CHA_local_loop(_, _, _, _, _)
CHA_local_loop(c, st0, target, limit, exclude) ==
    Let(st0, LAMBDA st :
    IF st.err # "none" THEN [value |-> INF, err |-> st.err]
    ELSE IF QIsEmpty(c.heap_type, st.heap)
    THEN [value |-> Get(st.dist, target, INF), err |-> "none"]
    ELSE Let(QExtractMin(c.heap_type, st.heap), LAMBDA r :
         IF r.err # "none" THEN [value |-> INF, err |-> r.err]
         ELSE IF r.node = NoNode THEN [value |-> INF, err |-> "TypeError"]
         ELSE IF r.prio > limit THEN [value |-> INF, err |-> "none"]
         ELSE IF r.node = target THEN [value |-> r.prio, err |-> "none"]
         ELSE IF r.prio > st.dist[r.node]
         THEN CHA_local_loop(c, [st EXCEPT !.heap = r.st], target, limit, exclude)
         ELSE CHA_local_loop(c,
                  CHA_local_relax(c, [st EXCEPT !.heap = r.st], r.prio, exclude,
                                  Get(c.graph, r.node, <<>>), 1),
                  target, limit, exclude)))

CHA_local_dijkstra(c, source, target, limit, exclude) ==
    Let(QInsert(c.heap_type, QNew(c.heap_type, c.max_key), source, 0), LAMBDA r :
    CHA_local_loop(c, [heap |-> r.st, dist |-> Put(EmptyMap, source, 0),
                       err |-> r.err],
                   target, limit, exclude))

\* a shortcut iv -> ov over u is needed (lines 149-154, 171-177)
CHA_needs_shortcut(c, u, iv, ov) ==
    /\ iv # ov
    /\ CHA_local_dijkstra(c, iv, ov,
                          CH_get_weight(c, iv, u) + CH_get_weight(c, u, ov), u).value
          > CH_get_weight(c, iv, u) + CH_get_weight(c, u, ov)

CHA_compute_importance(c, u) ==
    IF c.is_contracted[u] THEN INF
    ELSE Let(CH_open(c, Get(c.reverse_graph, u, <<>>), 1), LAMBDA incoming :
         Let(CH_open(c, Get(c.graph, u, <<>>), 1), LAMBDA outgoing :
         Cardinality({e \in (1..Len(incoming)) \X (1..Len(outgoing)) :
                         CHA_needs_shortcut(c, u, incoming[e[1]], outgoing[e[2]])})
             - (Len(incoming) + Len(outgoing))))

CHA_add_edge(c, u, v, w) ==
    [c EXCEPT !.graph = Put(@, u, Append(Get(@, u, <<>>), <<v, w>>)),
              !.reverse_graph = Put(@, v, Append(Get(@, v, <<>>), <<u, w>>))]

\* the two for loops of _contract_node, from the pair (i, j) on
RECURSIVE CHA_contract_from(_, _, _, _, _, _)
CHA_contract_from(c0, u, incoming, outgoing, i, j) ==
    IF i > Len(incoming) THEN c0
    ELSE IF j > Len(outgoing) THEN CHA_contract_from(c0, u, incoming, outgoing, i + 1, 1)
    ELSE Let(c0, LAMBDA c :
         IF CHA_needs_shortcut(c, u, incoming[i], outgoing[j])
         THEN CHA_contract_from(
                  CHA_add_edge(c, incoming[i], outgoing[j],
                               CH_get_weight(c, incoming[i], u)
                                   + CH_get_weight(c, u, outgoing[j])),
                  u, incoming, outgoing, i, j + 1)
         ELSE CHA_contract_from(c, u, incoming, outgoing, i, j + 1))

CHA_contract_node(c, u) ==
    CHA_contract_from(c, u, CH_open(c, Get(c.reverse_graph, u, <<>>), 1),
                      CH_open(c, Get(c.graph, u, <<>>), 1), 1, 1)

\* for node in self.nodes: pq.insert(node, imp + self.PRIORITY_OFFSET);
\* r is the last insert: [st, err, ...]
RECURSIVE CHA_fill(_, _, _)
CHA_fill(c, r, i) ==
    IF i > Len(c.nodes) \/ r.err # "none" THEN r
    ELSE CHA_fill(c, QInsert(c.heap_type, r.st, c.nodes[i],
                             CHA_compute_importance(c, c.nodes[i]) + PRIORITY_OFFSET),
                  i + 1)

\* the graphs of DagGraphs(n) with one more node n + 1, entered from node 1
\* over an edge of weight 1 and left for node n over one of MaxDagWeight - 1
ViaGraphs(n) ==
    {[u \in 1..(n + 1) |->
         IF u = 1 THEN Append(g[1], <<n + 1, 1>>)
         ELSE IF u = n + 1 THEN <<<<n, MaxDagWeight - 1>>>>
         ELSE g[u]] : g \in DagGraphs(n)}

CHA_Calls ==
    {[pc |-> "new", original_graph |-> g, heap_type |-> k, max_key |-> 0,
      graph |-> <<>>, nodes |-> <<>>, node_order |-> <<>>, rank |-> EmptyMap,
      is_contracted |-> <<>>, reverse_graph |-> <<>>,
      pq |-> <<>>, rank_counter |-> 0, pre |-> "none", err |-> "none",
      cu |-> NoNode, iv |-> NoNode, ov |-> NoNode, limit |-> 0,
      witness_dist |-> INF] :
        g \in Graphs(1) \cup ViaGraphs(MaxDagNodes), k \in Kinds}

\* ContractionHierarchy(graph, heap_type)
CHA_init ==
    /\ ch.pc = "new"
    /\ \E g \in {[v \in BD_rev_keys(ch.original_graph)
                    |-> Get(ch.original_graph, v, <<>>)]} :
          ch' = [ch EXCEPT !.pc = "ready",
                           !.graph = g,
                           !.nodes = KeyList(g, 1),
                           !.is_contracted = [v \in DOMAIN g |-> FALSE],
                           !.reverse_graph = BD_build_reverse_graph(g),
                           !.max_key = CHA_max_key(ch.original_graph, ch.heap_type)]
    /\ UNCHANGED <<qvars, dj, bd>>

\* the witness search of _compute_importance(u) for one pair (iv, ov) of
\* its loops (lines 144-153), as the first loop of preprocess runs it
CHA_witness_search(u, iv, ov) ==
    /\ ch.pc = "ready"
    /\ u \in DOMAIN ch.graph /\ ~ch.is_contracted[u]
    /\ \E i \in 1..Len(ch.reverse_graph[u]) : ch.reverse_graph[u][i][1] = iv
    /\ \E j \in 1..Len(ch.graph[u]) : ch.graph[u][j][1] = ov
    /\ ~ch.is_contracted[iv] /\ ~ch.is_contracted[ov]
    /\ iv # ov
    /\ \E target_dist \in {CH_get_weight(ch, iv, u) + CH_get_weight(ch, u, ov)} :
       \E r \in {CHA_local_dijkstra(ch, iv, ov, target_dist, u)} :
          ch' = [ch EXCEPT !.pc = "searched", !.cu = u, !.iv = iv, !.ov = ov,
                           !.limit = target_dist,
                           !.witness_dist = r.value, !.err = r.err]
    /\ UNCHANGED <<qvars, dj, bd>>

\* preprocess up to the while loop (lines 104-110)
CHA_preprocess ==
    /\ ch.pc = "ready"
    /\ \E r \in {CHA_fill(ch, Ret(QNew(ch.heap_type, ch.max_key), "none",
                                  NoNode, NoPrio), 1)} :
          ch' = [ch EXCEPT !.pc = IF r.err = "none" THEN "loop" ELSE "raised",
                           !.pre = IF r.err = "none" THEN "none" ELSE "raised",
                           !.pq = r.st, !.rank_counter = 0, !.err = r.err]
    /\ UNCHANGED <<qvars, dj, bd>>

\* one iteration of the while loop of preprocess (lines 112-128): with
\* another node left in pq, pq.peek() raises and nothing after it runs
CHA_preprocess_iterate ==
    /\ ch.pc = "loop"
    /\ ~QIsEmpty(ch.heap_type, ch.pq)
    /\ \E r \in {QExtractMin(ch.heap_type, ch.pq)} :
          IF r.err # "none"
          THEN ch' = [ch EXCEPT !.pc = "raised", !.pre = "raised", !.pq = r.st,
                                !.err = r.err]
          ELSE IF ~QIsEmpty(ch.heap_type, r.st)
          THEN ch' = [ch EXCEPT !.pc = "raised", !.pre = "raised", !.pq = r.st,
                                !.err = QPeek(ch.heap_type, r.st).err]
          ELSE \E c \in {CHA_contract_node(
                             [ch EXCEPT !.pq = r.st,
                                        !.rank = Put(@, r.node, ch.rank_counter),
                                        !.node_order = Append(@, r.node),
                                        !.rank_counter = @ + 1],
                             r.node)} :
                   ch' = [c EXCEPT !.is_contracted[r.node] = TRUE]
    /\ UNCHANGED <<qvars, dj, bd>>

\* the while loop of preprocess ends
CHA_preprocess_return ==
    /\ ch.pc = "loop"
    /\ QIsEmpty(ch.heap_type, ch.pq)
    /\ ch' = [ch EXCEPT !.pc = "preprocessed", !.pre = "returned"]
    /\ UNCHANGED <<qvars, dj, bd>>

\* BidirectionalDijkstra constructed with any tag
BD_TagCalls ==
    {[c EXCEPT !.heap_type = k] : c \in BD_Calls, k \in Tags}

\* --------------------------------------------------- the specifications

QIdle ==
    /\ kind = "none"
    /\ q = <<>>
    /\ op = "none"
    /\ ret = <<>>
    /\ live = EmptyMap
    /\ hist = <<>>

AIdle == dj = DJ_Idle /\ bd = DJ_Idle /\ ch = DJ_Idle

\* the queues under an arbitrary caller
Init == QInit /\ AIdle
Next == QNext
vars == <<kind, q, op, ret, live, hist, dj, bd, ch>>
Spec == Init /\ [][Next]_vars

\* the radix queue under calls that keep its contract
MonoInit == QInit /\ kind = "radix" /\ AIdle

SpecMono == MonoInit /\ [][MonoNext]_vars

\* the radix queue with stale entries
SpecStale == MonoInit /\ [][StaleNext]_vars

\* a Fibonacci heap grown to one tree and thinned
DegreeInit == DG_Init /\ AIdle

SpecDegree == DegreeInit /\ [][DG_Next]_vars

\* each queue filled, then drained

SpecDrain == Init /\ [][DrainNext]_vars

\* nodes inserted in numerical order, then drained
SpecTies == Init /\ [][TieNext]_vars

\* one call of dijkstra
DijkstraInit == QIdle /\ dj \in DJ_Calls /\ dj.source \in DOMAIN dj.graph
                /\ bd = DJ_Idle /\ ch = DJ_Idle

DijkstraNext == DJ_call \/ DJ_iterate \/ DJ_return

SpecDijkstra == DijkstraInit /\ [][DijkstraNext]_vars

\* one call of dijkstra that is not suspended for ever: the loop is the
\* only thread of control, so an iteration that can run does run
SpecDijkstraFair == DijkstraInit /\ [][DijkstraNext]_vars /\ WF_vars(DijkstraNext)

\* one bidirectional search
BidirectionalInit == QIdle /\ bd \in BD_Calls /\ dj = DJ_Idle /\ ch = DJ_Idle

BidirectionalNext == BD_init \/ BD_find_shortest_path \/ BD_loop

SpecBidirectional == BidirectionalInit /\ [][BidirectionalNext]_vars

\* one contraction hierarchy: preprocess, then a query
HierarchyInit == QIdle /\ ch \in CH_Calls /\ dj = DJ_Idle /\ bd = DJ_Idle

HierarchyNext ==
    \/ CH_init
    \/ CH_preprocess
    \/ CH_preprocess_iterate
    \/ CH_preprocess_return
    \/ \E s \in Nodes, t \in Nodes : CH_query(s, t)

SpecHierarchy == HierarchyInit /\ [][HierarchyNext]_vars

\* a hierarchy over a mapping with or without nodes that are no keys
EndpointInit ==
    QIdle /\ ch \in CH_Calls \cup CH_EndpointCalls /\ dj = DJ_Idle /\ bd = DJ_Idle

SpecEndpoints == EndpointInit /\ [][HierarchyNext]_vars

\* a hierarchy whose nodes are contracted in any order
ContractInit == QIdle /\ ch \in CT_Calls /\ dj = DJ_Idle /\ bd = DJ_Idle

ContractNext ==
    \/ CH_init
    \/ \E u \in 1..MaxContractNodes : CT_begin(u)
    \/ CT_pair
    \/ CT_end

SpecContract == ContractInit /\ [][ContractNext]_vars

\* a hierarchy whose nodes are contracted in any order and then queried
QueryInit == QIdle /\ ch \in CH_QueryCalls /\ dj = DJ_Idle /\ bd = DJ_Idle

QueryNext ==
    \/ CH_init
    \/ \E u \in Nodes : CH_contract(u)
    \/ CH_contracted
    \/ \E s \in Nodes, t \in Nodes : CH_query_begin(s, t)
    \/ CH_query_iterate
    \/ CH_query_return

SpecQuery == QueryInit /\ [][QueryNext]_vars

\* a hierarchy queried once, by a caller that has made its other calls of
\* query elsewhere; the thread that runs the loop of query is never
\* suspended for ever
QueryOnceInit ==
    /\ QIdle /\ dj = DJ_Idle /\ bd = DJ_Idle
    /\ ch \in {[c EXCEPT !.asked = MaxQueries - 1] : c \in CH_QueryCalls}

SpecQueryFair == QueryOnceInit /\ [][QueryNext]_vars /\ WF_vars(QueryNext)

\* the hierarchy built on the acyclic graphs of DagGraphs(MaxDagNodes) whose
\* weights are 1 and MaxDagWeight, and on the same mappings without the key
\* of the last node, which is then a node only as the endpoint of an edge
CH_DagCalls ==
    {[pc |-> "new", original_graph |-> g, graph |-> <<>>, nodes |-> <<>>,
      node_order |-> <<>>, rank |-> EmptyMap, is_contracted |-> <<>>,
      shortcuts |-> EmptyMap, reverse_graph |-> <<>>, rank_counter |-> 0,
      pre |-> "none", shared |-> FALSE,
      source |-> NoNode, target |-> NoNode, result |-> INF, err |-> "none"] :
        g \in UNION {{d, [u \in 1..(MaxDagNodes - 1) |-> d[u]]} :
                        d \in {d \in DagGraphs(MaxDagNodes) :
                                  \A u \in DOMAIN d : \A i \in 1..Len(d[u]) :
                                      d[u][i][2] # MaxDagWeight - 1}}}

ImportanceInit == QIdle /\ ch \in CH_DagCalls /\ dj = DJ_Idle /\ bd = DJ_Idle

ImportanceNext ==
    \/ CH_init
    \/ \E u \in 1..MaxDagNodes : CH_contract(u)
    \/ CH_contracted

SpecImportance == ImportanceInit /\ [][ImportanceNext]_vars

\* the queue-parameterised hierarchy: its witness searches and preprocess
AllInit == QIdle /\ ch \in CHA_Calls /\ dj = DJ_Idle /\ bd = DJ_Idle

AllNext ==
    \/ CHA_init
    \/ \E u \in 1..(MaxDagNodes + 1), iv \in 1..(MaxDagNodes + 1),
          ov \in 1..(MaxDagNodes + 1) : CHA_witness_search(u, iv, ov)
    \/ CHA_preprocess
    \/ CHA_preprocess_iterate
    \/ CHA_preprocess_return

SpecAll == AllInit /\ [][AllNext]_vars

\* one call of dijkstra or one bidirectional search, under any queue tag
TagInit ==
    /\ QIdle
    /\ ch = DJ_Idle
    /\ \E c \in ({DJ_Idle} \X BD_TagCalls)
                \cup ({d \in DJ_TagCalls : d.source \in DOMAIN d.graph} \X {DJ_Idle}) :
          dj = c[1] /\ bd = c[2]

TagNext == DijkstraNext \/ BidirectionalNext

SpecTags == TagInit /\ [][TagNext]_vars

\* one call of dijkstra on an acyclic graph
DagInit == QIdle /\ dj \in DJ_DagCalls /\ bd = DJ_Idle /\ ch = DJ_Idle

SpecDag == DagInit /\ [][DijkstraNext]_vars

\* ------------------------------------------------ properties of the queues

\* the smallest priority the caller's book-keeping holds
MinPrio(f) == CHOOSE m \in {f[n] : n \in DOMAIN f} : \A n \in DOMAIN f : m <= f[n]

\* extract_min repeated until it returns (None, None) or raises: the list of
\* (node, priority) pairs it returned, at most fuel of them
RECURSIVE QDrain(_, _, _)
QDrain(k, h0, fuel) ==
    Let(QExtractMin(k, h0), LAMBDA r :
    IF fuel = 0 \/ r.err # "none" \/ r.node = NoNode
    THEN <<>>
    ELSE <<<<r.node, r.prio>>>> \o QDrain(k, r.st, fuel - 1))

C4_WitnessEmpty ==
    /\ kind = "binary"
    /\ hist.phase = "mixed"
    /\ op = "extract_min" /\ ret.err = "none" /\ ret.node = NoNode
    /\ DOMAIN live = {}

\* C5: for RadixHeap, when no priority below last_extracted is ever passed to
\* insert or decrease_key, every extract_min that returns a node returns the
\* minimum priority over the live nodes, and last_extracted is that priority
\* afterwards.
C5_RadixExtractMinReturnsMinimum ==
    (kind = "radix" /\ DOMAIN live # {}) =>
        \E r \in {QExtractMin(kind, q)} :
            (r.err = "none" /\ r.node # NoNode) =>
                /\ r.prio = MinPrio(live)
                /\ r.st.last_extracted = r.prio

\* C6: for each of the three queues, when insert and decrease_key calls are
\* followed by extract_min until the queue is empty, every extraction returns
\* a priority at least as large as the one before.
C6_DrainIsNonDecreasing ==
    (hist.phase = "drain" /\ hist.last # NoPrio /\ ~QIsEmpty(kind, q)) =>
        \E r \in {QExtractMin(kind, q)} :
            /\ r.err = "none"
            /\ r.node # NoNode
            /\ r.prio >= hist.last

\* the radix queue in the middle of a drain: one node extracted, two nodes of
\* different priorities above it still in, beside a stale entry that a
\* decrease_key left in the buckets
C6_Witness ==
    /\ kind = "radix"
    /\ hist.phase = "drain"
    /\ op = "extract_min" /\ ret.node # NoNode /\ hist.last = ret.prio
    /\ Cardinality(DOMAIN live) = 2
    /\ \E n, m \in DOMAIN live : hist.last < live[n] /\ live[n] < live[m]
    /\ RH_entries(q) > q.size

C8_DecreaseKeyMonotone ==
    \A n \in DOMAIN live, p \in Prios :
        \E r \in {QDecreaseKey(kind, q, n, p)} :
            r.err = "none" =>
                \E dr \in {QDrain(kind, r.st, NumNodes + 1)} :
                    \E i \in 1..Len(dr) :
                        /\ dr[i][1] = n
                        /\ dr[i][2] <= p
                        /\ \A j \in 1..(i - 1) : dr[j][2] <= p

\* C9: for each of the three queues, insert(n, p) on a node n in the queue
\* raises ValueError for every p and leaves the queue exactly as it was.
C9_DuplicateInsertFails ==
    \A n \in DOMAIN live, p \in Prios :
        \E r \in {QInsert(kind, q, n, p)} :
            r.err = "ValueError" /\ r.st = q

\* a rejected insert on a binary heap that holds two nodes
C9_Witness ==
    /\ kind = "binary"
    /\ op = "insert" /\ ret.err = "ValueError"
    /\ Cardinality(DOMAIN live) = 2

\* C10: for each of the three queues, decrease_key(n, p) on a node n not in
\* the queue (never inserted or already extracted) raises KeyError and leaves
\* the queue exactly as it was, n still absent.
C10_DecreaseKeyMissingFails ==
    \A n \in Nodes \ DOMAIN live, p \in Prios :
        \E r \in {QDecreaseKey(kind, q, n, p)} :
            r.err = "KeyError" /\ r.st = q /\ ~QContains(kind, r.st, n)

\* a rejected decrease_key after an extraction, on a queue that holds a node
C10_Witness ==
    /\ op = "decrease_key" /\ ret.err = "KeyError"
    /\ hist.phase = "mixed"
    /\ DOMAIN live # {}

\* ------------------------------------------- properties of the algorithms

\* the smaller of two distances
Least(a, b) == IF a < b THEN a ELSE b

\* the least of d and the lengths D[u] + w over the edges u -> v of graph
RECURSIVE ViaList(_, _, _, _, _)
ViaList(D, u, nbrs, v, i) ==
    IF i > Len(nbrs) THEN INF
    ELSE Least(IF nbrs[i][1] = v /\ D[u] # INF THEN D[u] + nbrs[i][2] ELSE INF,
               ViaList(D, u, nbrs, v, i + 1))

RECURSIVE Via(_, _, _, _)
Via(graph, D, v, u) ==
    IF u \notin DOMAIN graph THEN INF
    ELSE Least(ViaList(D, u, graph[u], v, 1), Via(graph, D, v, u + 1))

\* the shortest-path distances from s over paths of at most k edges
RECURSIVE Shortest(_, _, _)
Shortest(graph, s, k) ==
    IF k = 0 THEN [v \in DOMAIN graph |-> IF v = s THEN 0 ELSE INF]
    ELSE Let(Shortest(graph, s, k - 1), LAMBDA D :
         [v \in DOMAIN graph |-> Least(D[v], Via(graph, D, v, 1))])

\* the true shortest-path distance from s to every node, INF when unreachable
TrueDist(graph, s) == Shortest(graph, s, Cardinality(DOMAIN graph) - 1)

C2_BidirectionalEqualsDijkstra ==
    /\ bd.pc # "raised"
    /\ bd.pc = "done" =>
          (/\ bd.source \in DOMAIN bd.graph /\ bd.target \in DOMAIN bd.graph
           => bd.result = TrueDist(bd.graph, bd.source)[bd.target])

\* C3: on every graph with non-negative weights, preprocess runs to its end
\* and query(s, t) then returns the true shortest-path distance from s to t
\* for every pair of nodes, INF when t cannot be reached from s.
C3_QueryEqualsDijkstra ==
    /\ ch.pc # "raised"
    /\ ch.pc = "answered" =>
          (/\ ch.source \in DOMAIN ch.original_graph
           /\ ch.target \in DOMAIN ch.original_graph
           => /\ ch.err = "none"
              /\ ch.result = TrueDist(ch.original_graph, ch.source)[ch.target])

\* -------------------------------------- further properties of the queues

\* C11: for each of the three queues, decrease_key(n, p) on a node n in the
\* queue with p at or above its current priority raises nothing and leaves
\* the queue object exactly as it was: the priority of n, the size and what
\* every later extract_min returns are the same.
C11_DecreaseKeyNotLowerIsNoOp ==
    \A n \in DOMAIN live, p \in Prios :
        p >= live[n] =>
            \E r \in {QDecreaseKey(kind, q, n, p)} :
                /\ r.err = "none"
                /\ r.st = q
                /\ QLen(kind, r.st) = Cardinality(DOMAIN live)
                /\ QDrain(kind, r.st, NumNodes + 1) = QDrain(kind, q, NumNodes + 1)

\* a radix queue of two nodes, before any extraction, whose last call was a
\* decrease_key that returned and whose buckets hold no stale entry: no
\* decrease_key has lowered a priority yet, so the last call was one with a
\* priority at or above the current one
C11_Witness ==
    /\ kind = "radix"
    /\ hist.phase = "build"
    /\ op = "decrease_key" /\ ret.err = "none"
    /\ Cardinality(DOMAIN live) = 2
    /\ RH_entries(q) = q.size

\* C12: in RadixHeap, in every reachable state, insert(n, p) with p below
\* last_extracted and decrease_key(n, p) on a present node n with p below
\* last_extracted both raise ValueError and leave buckets, node index, size
\* and last_extracted as they were.
C12_RadixBelowLastExtractedFails ==
    kind = "radix" =>
        /\ \A n \in Nodes, p \in Prios :
              p < q.last_extracted =>
                  \E r \in {QInsert(kind, q, n, p)} :
                      r.err = "ValueError" /\ r.st = q
        /\ \A n \in DOMAIN live, p \in Prios :
              p < q.last_extracted =>
                  \E r \in {QDecreaseKey(kind, q, n, p)} :
                      r.err = "ValueError" /\ r.st = q

\* C13: for each of the three queues, when several nodes of the queue share
\* the minimum priority, extract_min returns the one inserted first.  Under
\* SpecTies the nodes are inserted in numerical order, so that is the
\* smallest node among those of minimum priority.
C13_TiesInInsertionOrder ==
    DOMAIN live # {} =>
        \E r \in {QExtractMin(kind, q)} :
            /\ r.err = "none"
            /\ r.node \in DOMAIN live
            /\ live[r.node] = MinPrio(live)
            /\ \A n \in DOMAIN live : live[n] = MinPrio(live) => r.node <= n

\* ---------------------------------- properties of the contraction hierarchy

\* the pairs of nbrs whose neighbour is not in X
RECURSIVE WithoutList(_, _, _)
WithoutList(nbrs, X, i) ==
    IF i > Len(nbrs) THEN <<>>
    ELSE IF nbrs[i][1] \in X THEN WithoutList(nbrs, X, i + 1)
    ELSE <<nbrs[i]>> \o WithoutList(nbrs, X, i + 1)

\* graph without the nodes of X: no edge leaves or enters them
Without(graph, X) ==
    [u \in DOMAIN graph |-> IF u \in X THEN <<>> ELSE WithoutList(graph[u], X, 1)]

\* the least weight of an edge u -> v of graph, INF when there is none
MinWeight(graph, u, v) ==
    IF \E i \in 1..Len(graph[u]) : graph[u][i][1] = v
    THEN CHOOSE w \in {graph[u][i][2] : i \in {i \in 1..Len(graph[u]) : graph[u][i][1] = v}} :
             \A i \in 1..Len(graph[u]) : graph[u][i][1] = v => w <= graph[u][i][2]
    ELSE INF

Contracted(c) == {v \in DOMAIN c.is_contracted : c.is_contracted[v]}

\* C14: whenever _contract_node(u) inserts a shortcut (p, q, d), at that
\* moment d is the least weight of p -> u plus the least weight of u -> q in
\* the hierarchy's graph, p and q are not contracted, every path from p to q
\* that avoids u and the contracted nodes is longer than d, and the middle
\* node recorded for (p, q) is u.
C14_ShortcutSound ==
    (ch.pc = "pairs" /\ ch.k <= Len(ch.pairs)) =>
        \E e \in {ch.pairs[ch.k]} :
            CH_needs_shortcut(ch, ch.cu, e[1], e[2]) =>
                \E d \in {MinWeight(ch.graph, e[1], ch.cu) + MinWeight(ch.graph, ch.cu, e[2])} :
                \E c \in {CH_add_edge(ch, e[1], e[2],
                                      CH_get_weight(ch, e[1], ch.cu)
                                          + CH_get_weight(ch, ch.cu, e[2]), ch.cu)} :
                    /\ d < INF
                    /\ c.graph[e[1]] = Append(ch.graph[e[1]], <<e[2], d>>)
                    /\ ~ch.is_contracted[e[1]] /\ ~ch.is_contracted[e[2]]
                    /\ e[1] # ch.cu /\ e[2] # ch.cu
                    /\ TrueDist(Without(ch.graph, Contracted(ch) \cup {ch.cu}), e[1])[e[2]] > d
                    /\ c.shortcuts[<<e[1], e[2]>>] = ch.cu

\* a shortcut has just been inserted beside an edge p -> q that was already
\* in the graph and is longer than the way over the contracted node
C14_Witness ==
    /\ ch.pc = "pairs"
    /\ ch.last = "added"
    /\ \E e \in {ch.pairs[ch.k - 1]} :
          /\ ch.shortcuts[e] = ch.cu
          /\ Len(ch.graph[e[1]]) > 1
          /\ \E i \in 1..(Len(ch.graph[e[1]]) - 1) :
                /\ ch.graph[e[1]][i][1] = e[2]
                /\ ch.graph[e[1]][i][2] > ch.graph[e[1]][Len(ch.graph[e[1]])][2]

\* C15: preprocess ends without an exception on every graph with
\* non-negative weights, and when it has returned every node is contracted,
\* node_order lists each node once, and rank maps the nodes one-to-one onto
\* 0..|V|-1 with rank[node_order[i]] = i.
C15_PreprocessContractsEveryNode ==
    /\ ch.pre # "raised"
    /\ ch.pre = "returned" =>
          /\ \A v \in DOMAIN ch.graph : ch.is_contracted[v]
          /\ Len(ch.node_order) = Cardinality(DOMAIN ch.graph)
          /\ {ch.node_order[i] : i \in 1..Len(ch.node_order)} = DOMAIN ch.graph
          /\ DOMAIN ch.rank = DOMAIN ch.graph
          /\ \A i \in 1..Len(ch.node_order) : ch.rank[ch.node_order[i]] = i - 1

\* how many times the pair e stands in the list nbrs
Count(nbrs, e) == Cardinality({i \in 1..Len(nbrs) : nbrs[i] = e})

\* C16: every edge of the graph the caller passed is still an edge of the
\* hierarchy's graph, at least as many times; every further edge of the
\* hierarchy's graph is a shortcut recorded by a contraction; and the
\* caller's mapping is as the caller built it.
C16_OriginalEdgesKept ==
    ch.pc # "new" =>
        /\ ch.original_graph = ch.given
        /\ DOMAIN ch.given \subseteq DOMAIN ch.graph
        /\ \A u \in DOMAIN ch.given :
              /\ Len(ch.graph[u]) >= Len(ch.given[u])
              /\ \A i \in 1..Len(ch.given[u]) :
                    Count(ch.graph[u], ch.given[u][i]) >= Count(ch.given[u], ch.given[u][i])
        /\ \A u \in DOMAIN ch.graph : \A i \in 1..Len(ch.graph[u]) :
              Count(ch.graph[u], ch.graph[u][i]) > Count(Get(ch.given, u, <<>>), ch.graph[u][i])
                  => /\ <<u, ch.graph[u][i][1]>> \in DOMAIN ch.shortcuts
                     /\ ch.is_contracted[ch.shortcuts[<<u, ch.graph[u][i][1]>>]]
                        \/ ch.shortcuts[<<u, ch.graph[u][i][1]>>] = ch.cu

\* every node is contracted and the hierarchy's graph has gained a shortcut
C16_Witness ==
    /\ ch.pc = "ready"
    /\ Cardinality(DOMAIN ch.graph) = NumNodes
    /\ \A v \in DOMAIN ch.graph : ch.is_contracted[v]
    /\ \E u \in DOMAIN ch.graph : Len(ch.graph[u]) > Len(ch.given[u])

\* ------------------------------------ properties of the bidirectional search

\* C17: for any graph, heap type and skew and any node identifier x, in the
\* graph or not, find_shortest_path(x, x) returns 0.
C17_SameNodeIsZero ==
    (bd.pc \notin {"new", "ready"} /\ bd.source = bd.target) =>
        bd.pc = "done" /\ bd.result = 0 /\ bd.err = "none"

\* a call with source = target = a node that is no key of the graph, on a
\* radix-heap search, has returned
C17_Witness ==
    /\ bd.pc = "done"
    /\ bd.source = bd.target
    /\ bd.source \notin DOMAIN bd.graph
    /\ bd.heap_type = "radix"
    /\ bd.skew = SkewSteps

\* C18 as stated: find_shortest_path(s, t) returns INF, raising nothing,
\* whenever s or t is not a node of the graph.
C18_MissingNodeIsInfinite ==
    (/\ bd.pc \notin {"new", "ready"}
     /\ bd.source \notin DOMAIN bd.graph \/ bd.target \notin DOMAIN bd.graph) =>
        bd.pc = "done" /\ bd.result = INF /\ bd.err = "none"

\* C18, amended: find_shortest_path(s, t) returns INF, raising nothing,
\* whenever s and t differ and s or t is not a node of the graph (with s = t
\* it returns 0, whether or not s is a node).
C18_MissingNodeIsInfiniteUnlessSame ==
    (/\ bd.pc \notin {"new", "ready"}
     /\ bd.source # bd.target
     /\ bd.source \notin DOMAIN bd.graph \/ bd.target \notin DOMAIN bd.graph) =>
        bd.pc = "done" /\ bd.result = INF /\ bd.err = "none"

\* a call from a source that is no key of the graph to a node of the graph
\* has returned INF
C18_Witness ==
    /\ bd.pc = "done"
    /\ bd.source \notin DOMAIN bd.graph
    /\ bd.target \in DOMAIN bd.graph
    /\ bd.result = INF

\* C19: once preprocess has been called, query(s, t) returns INF, raising
\* nothing, whenever s or t is not a node of the graph, and returns 0 whenever
\* s = t is a node of the graph.
C19_QuerySpecialCases ==
    ch.pc = "answered" =>
        /\ (ch.source \notin DOMAIN ch.graph \/ ch.target \notin DOMAIN ch.graph)
              => ch.result = INF /\ ch.err = "none"
        /\ (ch.source = ch.target /\ ch.source \in DOMAIN ch.graph)
              => ch.result = 0 /\ ch.err = "none"

\* preprocess has returned and a query from a node to itself was answered
C19_Witness ==
    /\ ch.pc = "answered"
    /\ ch.pre = "returned"
    /\ ch.source = ch.target
    /\ ch.source \in DOMAIN ch.graph
    /\ ch.result = 0

\* the nodes of a mapping: its keys and the endpoints of its edges
NodesOf(graph) ==
    DOMAIN graph \cup UNION {{graph[u][i][1] : i \in 1..Len(graph[u])} : u \in DOMAIN graph}

\* the mapping with an empty list for every node that is no key
WithAllKeys(graph) ==
    [v \in NodesOf(graph) |-> IF v \in DOMAIN graph THEN graph[v] ELSE <<>>]

\* C20: for a mapping in which some nodes are only edge endpoints, the
\* constructor registers every such node, preprocess gives each a rank, and
\* query between any two nodes returns the true shortest distance.
C20_EndpointOnlyNodes ==
    NodesOf(ch.original_graph) # DOMAIN ch.original_graph =>
    /\ ch.pc # "new" =>
          /\ DOMAIN ch.graph = NodesOf(ch.original_graph)
          /\ {ch.nodes[i] : i \in 1..Len(ch.nodes)} = NodesOf(ch.original_graph)
          /\ DOMAIN ch.is_contracted = NodesOf(ch.original_graph)
    /\ ch.pre # "raised"
    /\ ch.pre = "returned" => DOMAIN ch.rank = NodesOf(ch.original_graph)
    /\ (/\ ch.pc = "answered"
        /\ ch.source \in NodesOf(ch.original_graph)
        /\ ch.target \in NodesOf(ch.original_graph)) =>
          /\ ch.err = "none"
          /\ ch.result = TrueDist(WithAllKeys(ch.original_graph), ch.source)[ch.target]


\* -------------------------------------------------- unknown queue variants

\* C21: a tag outside {binary, fibonacci, radix} is rejected: dijkstra raises
\* ValueError before it computes any distance, and every find_shortest_path
\* call of a BidirectionalDijkstra constructed with such a tag raises it
C21_UnknownTagRejected ==
    /\ dj.pc \notin {"idle", "call"} /\ dj.heap_type \notin Kinds =>
           dj.pc = "raised" /\ dj.err = "ValueError" /\ dj.dist = <<>>
    /\ bd.pc \notin {"idle", "new", "ready"} /\ bd.heap_type \notin Kinds =>
           bd.pc = "raised" /\ bd.err = "ValueError"


\* ------------------------------------------------- the radix queue's state

\* the live entries of bucket b (counted from 0) of the radix queue h
RH_live_in(h, b) ==
    {h.buckets[b + 1][k] : k \in {j \in 1..Len(h.buckets[b + 1]) :
        RH_live(h, h.buckets[b + 1][j][1], h.buckets[b + 1][j][2])}}

\* C22: in RadixHeap, under calls that keep its contract, every live entry of
\* a bucket i below the last one has a priority p with u[i] <= p < u[i+1]
\* under the current bounds, u[0] = last_extracted and
\* u[i] = last_extracted + 2^(i-1); so a live entry of a lower bucket never
\* has a larger priority than a live entry of a higher bucket.
C22_BucketBounds ==
    kind = "radix" =>
        /\ \A i \in 1..q.B :
               q.u[i] = IF i = 1 THEN q.last_extracted
                        ELSE q.last_extracted + 2 ^ (i - 2)
        /\ \A b \in 0..(q.B - 2) : \A e \in RH_live_in(q, b) :
               q.u[b + 1] <= e[2] /\ e[2] < q.u[b + 2]
        /\ \A b \in 0..(q.B - 1), c \in 0..(q.B - 1) :
               b < c => \A e \in RH_live_in(q, b), f \in RH_live_in(q, c) :
                            e[2] <= f[2]

\* C23: in RadixHeap, under calls that keep its contract, last_extracted is
\* the largest priority extract_min has returned so far (0 before the first):
\* it is 0 until an extraction, it is the returned priority after each
\* extraction, no call ever lowers it, and every live node's priority is at
\* least last_extracted.
C23_LastExtractedIsLargest ==
    kind = "radix" =>
        /\ hist.phase = "build" => q.last_extracted = 0
        /\ (op = "extract_min" /\ ret.err = "none" /\ ret.node # NoNode) =>
               q.last_extracted = ret.prio
        /\ \E r \in {QExtractMin(kind, q)} :
               r.st.last_extracted >= q.last_extracted
        /\ \A n \in Nodes, p \in Prios :
               p >= q.last_extracted =>
                   \E ri \in {QInsert(kind, q, n, p)},
                      rd \in {QDecreaseKey(kind, q, n, p)} :
                       /\ ri.st.last_extracted = q.last_extracted
                       /\ rd.st.last_extracted = q.last_extracted
        /\ \A n \in DOMAIN q.node_map : q.node_map[n][1] >= q.last_extracted

\* entries of the buckets of h that are not the current entry of their node
RH_stale(h) ==
    UNION {{h.buckets[b][k] : k \in {j \in 1..Len(h.buckets[b]) :
                ~RH_live(h, h.buckets[b][j][1], h.buckets[b][j][2])}} :
           b \in 1..h.B}

\* C24: in RadixHeap, stale entries are never returned: from every reachable
\* state, repeated extract_min returns each node in the queue exactly once,
\* with the smallest priority given to it since its insertion, also for a
\* node re-inserted while an old entry of it is still in a bucket.
C24_StaleEntriesNeverReturned ==
    kind = "radix" =>
        /\ DOMAIN q.node_map = DOMAIN live
        /\ \E dr \in {QDrain(kind, q, MaxStale + 1)} :
               /\ Len(dr) = Cardinality(DOMAIN live)
               /\ \A n \in DOMAIN live :
                      \E i \in 1..Len(dr) : dr[i] = <<n, live[n]>>

\* the only node of the queue was inserted again after its extraction, and
\* an entry from before the extraction is still in a bucket
C24_Witness ==
    /\ kind = "radix"
    /\ hist.phase = "mixed"
    /\ op = "insert" /\ ret.err = "none"
    /\ Cardinality(DOMAIN live) = 1
    /\ \E e \in RH_stale(q) : e[1] \in DOMAIN live

\* C25: in RadixHeap, whenever size > 0, extract_min returns a live
\* (node, priority) pair: it neither returns (None, None) nor raises
\* RuntimeError, also when bucket 0 or the lowest non-empty bucket holds only
\* stale entries.
C25_ExtractMinFindsLiveEntry ==
    (kind = "radix" /\ q.size > 0) =>
        \E r \in {QExtractMin(kind, q)} :
            /\ r.err = "none"
            /\ r.node \in DOMAIN live
            /\ r.prio = live[r.node]
            /\ r.st.size = q.size - 1

\* nodes in the queue while bucket 0 holds entries, all of them stale
C25_Witness ==
    /\ kind = "radix"
    /\ q.size > 0
    /\ q.buckets[1] # <<>>
    /\ RH_live_in(q, 0) = {}


\* ------------------------------------------- the Fibonacci heap's trees

\* C27: in FibonacciHeap, consolidation never meets a root degree at or
\* beyond floor(log2(count)) + 2, so extract_min never indexes the degree
\* table out of range.
C27_DegreeTableInRange ==
    kind = "fibonacci" =>
        \E r \in {QExtractMin(kind, q)} : r.err # "IndexError"

\* the roots of h: the FibNodes of the circular list through h.min
FH_roots(h) ==
    IF h.min = NoNode THEN {}
    ELSE {FH_iterate(h, h.min)[i] : i \in 1..Len(FH_iterate(h, h.min))}

\* no child has a key smaller than its parent's
FH_heap_ordered(h) ==
    \A n \in h.nodes : h.parent[n] # NoNode => h.key[h.parent[n]] <= h.key[n]

\* h.min is a root whose key is minimal among all the nodes of the heap
FH_min_is_minimal(h) ==
    IF h.nodes = {} THEN h.min = NoNode
    ELSE /\ h.min \in h.nodes
         /\ h.parent[h.min] = NoNode
         /\ \A n \in h.nodes : h.key[h.min] <= h.key[n]

\* C26: in FibonacciHeap, after every extract_min that leaves the heap
\* non-empty the root list holds at most one tree of each degree; after every
\* insert, decrease_key and extract_min every tree is heap-ordered and the min
\* pointer is a root of minimal key.
C26_TreesAfterEachCall ==
    kind = "fibonacci" =>
        /\ FH_heap_ordered(q)
        /\ FH_min_is_minimal(q)
        /\ (op = "extract_min" /\ q.nodes # {}) =>
               /\ FH_roots(q) = {n \in q.nodes : q.parent[n] = NoNode}
               /\ \A a \in FH_roots(q), b \in FH_roots(q) :
                      a # b => q.degree[a] # q.degree[b]


\* ------------------------------------------------ the binary heap's array

\* C28: in BinaryHeap, after every insert, decrease_key and extract_min,
\* whether it returned or raised, every element's priority is at least its
\* parent's, the keys of the position map are the nodes of the array, and
\* heap[pos[n]] holds node n for every n.
C28_HeapPropertyAndPositions ==
    kind = "binary" =>
        /\ \A i \in 1..(Len(q.heap) - 1) :
               BH_at(q, i)[2] >= BH_at(q, BH_parent(i))[2]
        /\ DOMAIN q.pos = {q.heap[k][1] : k \in 1..Len(q.heap)}
        /\ \A n \in DOMAIN q.pos :
               /\ q.pos[n] \in 0..(Len(q.heap) - 1)
               /\ BH_at(q, q.pos[n])[1] = n

\* an extract_min, after other calls, that took the minimum of three nodes
\* and sifted the new root down
C28_Witness ==
    /\ kind = "binary"
    /\ hist.phase = "mixed"
    /\ op = "extract_min" /\ ret.node # NoNode
    /\ Len(q.heap) = 2
    /\ BH_at(q, 0)[2] < BH_at(q, 1)[2]


\* ------------------------------------------- the bidirectional main loop

\* C29: every iteration of the main loop of find_shortest_path that does not
\* return pops the forward queue if |Q_f| * (1 - skew) <= |Q_b| * skew and
\* the backward queue otherwise, leaving the other queue as it was.
C29_DirectionBySkew ==
    [][(/\ bd.pc = "loop"
        /\ ~QIsEmpty(bd.heap_type, bd.f_heap)
        /\ ~QIsEmpty(bd.heap_type, bd.b_heap)
        /\ bd'.pc # "done") =>
           \E f \in {QExtractMin(bd.heap_type, bd.f_heap)},
              b \in {QExtractMin(bd.heap_type, bd.b_heap)} :
               IF QLen(bd.heap_type, bd.f_heap) * (SkewSteps - bd.skew)
                      <= QLen(bd.heap_type, bd.b_heap) * bd.skew
               THEN /\ ~QContains(bd.heap_type, bd'.f_heap, f.node)
                    /\ bd'.b_heap = bd.b_heap
               ELSE /\ ~QContains(bd.heap_type, bd'.b_heap, b.node)
                    /\ bd'.f_heap = bd.f_heap]_vars

\* the smallest dist_f[v] + dist_b[v] over the nodes labelled by both
\* searches, INF when there is none
MinBoth(fd, rd) ==
    IF DOMAIN fd \cap DOMAIN rd = {} THEN INF
    ELSE CHOOSE m \in {fd[v] + rd[v] : v \in DOMAIN fd \cap DOMAIN rd} :
             \A v \in DOMAIN fd \cap DOMAIN rd : m <= fd[v] + rd[v]

C31_ExpandedOnceAtFinalDistance ==
    dj.pc \in {"loop", "done", "raised"} =>
        /\ \A i \in 1..Len(dj.expanded) : \A j \in 1..Len(dj.expanded) :
               dj.expanded[i][1] = dj.expanded[j][1] => i = j
        /\ \A i \in 1..Len(dj.expanded) :
               dj.expanded[i][2] = TrueDist(dj.graph, dj.source)[dj.expanded[i][1]]

\* the queue call made for the i-th successor of u keeps the queue's
\* contract; st is the state of the for loop before that successor
DJ_call_in_contract(heap_type, st, u, nbrs, i) ==
    Let(st.dist[u] + nbrs[i][2], LAMBDA alt :
    alt < st.dist[nbrs[i][1]] =>
        /\ DJ_in_heap(heap_type, st.heap, nbrs[i][1])
              <=> QContains(heap_type, st.heap, nbrs[i][1])
        /\ heap_type = "radix" => alt >= st.heap.last_extracted)

DJ_iteration_in_contract ==
    dj.pc = "loop" /\ ~QIsEmpty(dj.heap_type, dj.heap) =>
        \E r \in {QExtractMin(dj.heap_type, dj.heap)} :
            /\ r.err = "none"
            /\ r.node # NoNode /\ r.prio <= dj.dist[r.node] =>
                   \A i \in 1..Len(dj.graph[r.node]) :
                       \E st \in {DJ_relax(dj.heap_type,
                                            [heap |-> r.st, dist |-> dj.dist,
                                             err |-> "none"],
                                            r.node, SubSeq(dj.graph[r.node], 1, i - 1),
                                            1)} :
                           /\ st.err = "none"
                           /\ DJ_call_in_contract(dj.heap_type, st, r.node,
                                                  dj.graph[r.node], i)

DJ_NoQueueError ==
    /\ dj.pc # "raised"
    /\ dj.pc \in {"loop", "done"} => dj.err = "none"
    /\ DJ_iteration_in_contract
    /\ dj.pc = "done" => QIsEmpty(dj.heap_type, dj.heap)

Relabelled(d0, d1, v) ==
    v \in DOMAIN d1 /\ (v \in DOMAIN d0 => d1[v] # d0[v])

\* an iteration that pops (u, d) from heap gives v its new label d1[v] over
\* an edge u -> v of g that leads to a strictly higher rank
ByAscendingEdge(heap, g, d1, v) ==
    /\ ~BH_is_empty(heap)
    /\ \E r \in {BH_extract_min(heap)} :
          \E i \in 1..Len(g[r.node]) :
              /\ g[r.node][i][1] = v
              /\ ch.rank[r.node] < ch.rank[v]
              /\ d1[v] = r.prio + g[r.node][i][2]

\* C33: in a query on a preprocessed hierarchy every edge u -> v relaxed by
\* the forward search (over G_CH) or by the backward search (over the
\* reverse of G_CH) has rank(u) < rank(v): an iteration changes dist_f,
\* dist_b and mu only through such edges.
C33_OnlyAscendingEdgesRelaxed ==
    [][ch.pc = "query" /\ ch'.pc = "query" =>
          /\ \A v \in DOMAIN ch'.f_dist :
                Relabelled(ch.f_dist, ch'.f_dist, v) =>
                    ByAscendingEdge(ch.f_heap, ch.graph, ch'.f_dist, v)
          /\ \A v \in DOMAIN ch'.b_dist :
                Relabelled(ch.b_dist, ch'.b_dist, v) =>
                    ByAscendingEdge(ch.b_heap, ch.reverse_graph, ch'.b_dist, v)
          /\ ch'.mu # ch.mu =>
                \E v \in DOMAIN ch'.f_dist \cap DOMAIN ch'.b_dist :
                    /\ Relabelled(ch.f_dist, ch'.f_dist, v)
                          \/ Relabelled(ch.b_dist, ch'.b_dist, v)
                    /\ ch'.mu = ch'.f_dist[v] + ch'.b_dist[v]]_vars

\* a query has ended with a finite distance, the forward search having
\* labelled a node over an ascending edge and left aside an edge of the
\* source that leads to a lower rank
C33_Witness ==
    /\ ch.pc = "answered"
    /\ ch.pre = "returned"
    /\ ch.source # ch.target
    /\ ch.result < INF
    /\ \E v \in DOMAIN ch.f_dist : v # ch.source
    /\ \E i \in 1..Len(ch.graph[ch.source]) :
          /\ ch.rank[ch.source] > ch.rank[ch.graph[ch.source][i][1]]
          /\ ch.graph[ch.source][i][1] \notin DOMAIN ch.f_dist

C35_ContractOrReinsert ==
    [][ch.pc = "loop" /\ ~BH_is_empty(ch.pq) =>
          \E r \in {BH_extract_min(ch.pq)} :
          \E current_imp \in {CH_compute_importance(ch, r.node)} :
              IF ch'.is_contracted[r.node]
              THEN BH_is_empty(r.st) \/ current_imp <= BH_at(r.st, 0)[2]
              ELSE /\ ch'.pq = BH_insert(r.st, r.node, current_imp).st
                   /\ ch'.rank = ch.rank
                   /\ ch'.node_order = ch.node_order
                   /\ ch'.is_contracted = ch.is_contracted
                   /\ ch'.graph = ch.graph
                   /\ ch'.reverse_graph = ch.reverse_graph]_vars

\* C38: the witness search _local_dijkstra(p, q, limit, exclude) raises
\* nothing and returns the least length of a path from p to q in the
\* hierarchy's graph that avoids exclude and the contracted nodes when that
\* length is at most limit, and a value above limit otherwise, under each of
\* the three queue variants.
C38_WitnessSearchExact ==
    ch.pc = "searched" =>
        \E T \in {TrueDist(Without(ch.graph, Contracted(ch) \cup {ch.cu}), ch.iv)[ch.ov]} :
            /\ ch.err = "none"
            /\ IF T <= ch.limit THEN ch.witness_dist = T
               ELSE ch.witness_dist > ch.limit

\* C36: in the queue-parameterised hierarchy the deferred re-evaluation of
\* preprocess is effective: an iteration that pops u while another node is
\* queued carries the comparison out and goes on with the loop, and when the
\* recomputed importance I(u) is greater than the importance under which the
\* next queued node is stored, u is queued again under I(u) and is neither
\* ranked nor contracted in that iteration.
C36_DeferredReevaluation ==
    [][(ch.pc = "loop" /\ ~QIsEmpty(ch.heap_type, ch.pq)) =>
          \E r \in {QExtractMin(ch.heap_type, ch.pq)} :
              (r.err = "none" /\ ~QIsEmpty(ch.heap_type, r.st)) =>
                  /\ ch'.pc = "loop"
                  /\ \E current_imp \in {CHA_compute_importance(ch, r.node)} :
                     \E next \in {QExtractMin(ch.heap_type, r.st)} :
                        current_imp > next.prio - PRIORITY_OFFSET =>
                            /\ ch'.pq = QInsert(ch.heap_type, r.st, r.node,
                                                current_imp + PRIORITY_OFFSET).st
                            /\ ~ch'.is_contracted[r.node]
                            /\ r.node \notin DOMAIN ch'.rank]_vars

\* the number of edges of graph, parallel ones counted each
EdgeCount(graph) ==
    Cardinality(UNION {{u} \X (1..Len(graph[u])) : u \in DOMAIN graph})

\* C37: in every state of preprocessing and for every node u that is not
\* contracted, the shortcut count inside the importance of u, which is
\* _compute_importance(u) plus the numbers of its live incoming and outgoing
\* neighbours, equals the number of edges that _contract_node(u) adds to the
\* hierarchy's graph when run in that state.
C37_ImportanceCountsInsertedShortcuts ==
    ch.pc = "ready" =>
        \A u \in DOMAIN ch.graph :
            ~ch.is_contracted[u] =>
                \E c \in {CH_contract_node(ch, u)} :
                    CH_compute_importance(ch, u)
                        + Len(CH_open(ch, Get(ch.reverse_graph, u, <<>>), 1))
                        + Len(CH_open(ch, Get(ch.graph, u, <<>>), 1))
                    = EdgeCount(c.graph) - EdgeCount(ch.graph)

\* the weights on the edges of the two mappings of c
EdgeWeights(c) ==
    {c.graph[u][i][2] : <<u, i>> \in
         UNION {{u} \X (1..Len(c.graph[u])) : u \in DOMAIN c.graph}}
    \cup {c.reverse_graph[v][i][2] : <<v, i>> \in
         UNION {{v} \X (1..Len(c.reverse_graph[v])) : v \in DOMAIN c.reverse_graph}}

\* C39: from the constructor to the end of preprocess, graph and
\* reverse_graph of the hierarchy have the same keys, and for all u, v, w the
\* entry (v, w) stands in graph[u] as many times as (u, w) in
\* reverse_graph[v].
C39_ReverseGraphMirrors ==
    ch.pc \in {"ready", "preprocessed"} =>
        /\ DOMAIN ch.graph = DOMAIN ch.reverse_graph
        /\ \A u \in DOMAIN ch.graph : \A v \in DOMAIN ch.graph :
           \A w \in EdgeWeights(ch) :
               Count(ch.graph[u], <<v, w>>) = Count(ch.reverse_graph[v], <<u, w>>)

\* preprocess ended on a mapping whose last node was no key, and its
\* contractions added a shortcut
C39_Witness ==
    /\ ch.pc = "preprocessed"
    /\ DOMAIN ch.original_graph # DOMAIN ch.graph
    /\ ch.shortcuts # EmptyMap
    /\ EdgeCount(ch.graph) > EdgeCount(ch.original_graph)

\* C40: after preprocess has returned, no step of a query changes graph,
\* reverse_graph, rank, node_order, is_contracted or shortcuts of the
\* hierarchy, and a query asked a second time returns what it returned the
\* first time.
C40_QueryReadOnly ==
    [][ch.pc \in {"preprocessed", "query", "answered"} =>
          /\ ch'.graph = ch.graph
          /\ ch'.reverse_graph = ch.reverse_graph
          /\ ch'.rank = ch.rank
          /\ ch'.node_order = ch.node_order
          /\ ch'.is_contracted = ch.is_contracted
          /\ ch'.shortcuts = ch.shortcuts
          /\ (ch'.pc = "answered" /\ ch'.asked > 1) =>
                 (ch'.err = "none" /\ ch'.result = ch'.first)]_vars

\* the second query between two different nodes of a hierarchy with a
\* shortcut went through its loop and returned the finite distance of the
\* first
C40_Witness ==
    /\ ch.pc = "answered"
    /\ ch.asked = MaxQueries
    /\ ch.shortcuts # EmptyMap
    /\ ch.source # ch.target
    /\ ch.f_dist # Put(EmptyMap, ch.source, 0)
    /\ ch.result = ch.first
    /\ ch.result > 0 /\ ch.result < INF
====
